---- MODULE Spec2Model ----
(***************************************************************************)
(* Model of openclaw_deploy: the rollback sequencer (rollback.py,           *)
(* RollbackManager) and the two workflow drivers that use it               *)
(* (deploy.py run_deploy, update.py run_update).                           *)
(*                                                                         *)
(* SpecRM drives one RollbackManager through arbitrary sequences of its    *)
(* four operations; SpecArgs adds a caller that changes the config object  *)
(* it registered; SpecTwo drives two managers.  SpecWF runs one invocation *)
(* of run_deploy or run_update step by step, SpecCleanup one cleanup       *)
(* command.  SpecCmd applies run_command, SpecEnv save_env_file followed   *)
(* by from_env_file, SpecLoad load_config, each to every input in range.   *)
(* SpecUndo runs cleanup_failed_deployment, SpecWait (SpecWaitLive with    *)
(* fairness) the polling loop of wait_for_healthy, SpecStatus run_status.  *)
(***************************************************************************)
EXTENDS Integers, Sequences, FiniteSets, TLC

VARIABLES
    rollback,       \* the RollbackManager: [actions, enabled]
    calls,          \* ids of the actions invoked by the latest execute(), in order
    outs,           \* outcome of each of those invocations
    ret,            \* how the latest execute() ended
    lastOp,         \* the operation performed last
    nextId,         \* number of add_action calls so far
    clearedAt,      \* value of nextId at the latest clear()
    everDisabled,   \* disable() has been called
    cmd,            \* the workflow running: "deploy", "update" ("none" in SpecRM)
    pc,             \* the step the workflow is about to perform
    auto_rollback,  \* parameter auto_rollback
    skip_health_check,  \* parameter skip_health_check
    interactive,    \* parameter interactive (run_deploy)
    env_exists,     \* project_dir/.env exists
    container_exists,   \* check_container_exists(config.container_name)
    ops,            \* what the invocation has done so far, in order
    result,         \* how the invocation ended
    config,         \* version of the contents of the shared DeploymentConfig object
    boundCfg,       \* per action id: config when add_action registered it
    usedCfg,        \* per invocation of the latest execute(): the config it acted on
    rollback2,      \* a second RollbackManager (SpecTwo)
    regB,           \* ids of the actions registered on rollback2
    port_in_use,    \* something accepts connections on localhost:gateway_port
    prereqs_ok,     \* the six prerequisite checks other than the port pass
    call,           \* arguments and environment of the function applied (SpecCmd, ...)
    outcome,        \* what that function returned or raised
    remove_volumes, \* parameter remove_volumes (run_cleanup)
    remove_image,   \* parameter remove_image (run_cleanup)
    remove_config,  \* parameter remove_config (run_cleanup)
    remove_all,     \* option --all of the cleanup command
    volume_exists,  \* the home volume exists
    image_exists    \* the image exists

rmVars == <<rollback, calls, outs, ret, lastOp, nextId, clearedAt, everDisabled>>

wfVars == <<cmd, pc, auto_rollback, skip_health_check, interactive, env_exists,
            container_exists, ops, result, port_in_use, prereqs_ok>>

\* The single-function specifications.
fnVars == <<call, outcome>>

\* run_cleanup and the cleanup command.
clVars == <<remove_volumes, remove_image, remove_config, remove_all,
            volume_exists, image_exists>>

\* config, boundCfg and usedCfg are followed in SpecRM and SpecArgs,
\* rollback2 and regB in SpecTwo; a workflow invocation leaves them alone.
auxVars == <<config, boundCfg, usedCfg, rollback2, regB>>

vars == <<rmVars, wfVars, auxVars, fnVars, clVars>>

\* ---------------------------------------------------------------- bounds

\* add_action calls explored per RollbackManager
MaxReg == 3

\* changes made to the shared DeploymentConfig object
MaxCfg == 2

\* add_action calls explored over two RollbackManagers together
MaxRegTwo == 2

\* largest exit status (and signal number) of a command explored
MaxRc == 2

\* longest field value written to the .env file
MaxLen == 2

\* largest timeout, interval (seconds) and duration of one poll of
\* wait_for_healthy explored
MaxTimeout == 6

MaxInterval == 2

MaxLag == 1

\* "health is None and retries > 3" (docker_utils.py:324)
NoHealthCheckRetries == 3

\* ---------------------------------------------------------------- values

\* The names the drivers register (deploy.py:111,140; update.py:86).
ActionNames == {"Remove .env file", "Stop services", "Start services"}

\* How one invocation of an undo action can end: it returns, it raises an
\* Exception subclass, or a KeyboardInterrupt (a BaseException that is no
\* Exception) is delivered while it runs.
Outcomes == {"ok", "raise", "interrupt"}

Reverse(s) == [i \in 1..Len(s) |-> s[Len(s) + 1 - i]]

IsPrefix(p, s) == Len(p) <= Len(s) /\ SubSeq(s, 1, Len(p)) = p

Ids(acts) == [i \in 1..Len(acts) |-> acts[i].id]

Count(s, x) == Cardinality({i \in 1..Len(s) : s[i] = x})

\* ------------------------------------------------------- RollbackManager

\* RollbackAction(name, action, args, kwargs); id stands for the identity
\* of the object created by this add_action call.
RollbackAction(name, id) == [name |-> name, id |-> id]

\* RollbackManager.__init__
RollbackManager == [actions |-> <<>>, enabled |-> TRUE]

\* Faulty variant: the new action is inserted at the front of the log.
add_action_front(self, name, id) ==
    [self EXCEPT !.actions = <<RollbackAction(name, id)>> \o @]

\* Faulty variant: the log is replaced by the new action alone.
add_action_overwrites(self, name, id) ==
    [self EXCEPT !.actions = <<RollbackAction(name, id)>>]

\* RollbackManager.add_action
add_action(self, name, id) ==
    [self EXCEPT !.actions = Append(@, RollbackAction(name, id))]

\* Faulty variant: disable() also empties the log.
disable_drops_log(self) == [actions |-> <<>>, enabled |-> FALSE]

\* RollbackManager.disable
disable(self) == [self EXCEPT !.enabled = FALSE]

\* Faulty variant: clear() also turns the manager back on.
clear_reenables(self) == [actions |-> <<>>, enabled |-> TRUE]

\* Faulty variant: clear() drops only the most recent action.
clear_last_only(self) ==
    [self EXCEPT !.actions =
        IF @ = <<>> THEN <<>> ELSE SubSeq(@, 1, Len(@) - 1)]

\* RollbackManager.clear
clear(self) == [self EXCEPT !.actions = <<>>]

\* The loop of execute(): "for action in reversed(self.actions)" from log
\* position i down to 1.  out[i] is the outcome of invoking the action at
\* log position i.  "except Exception" catches "raise" and sets success to
\* False; a KeyboardInterrupt is not an Exception and leaves the loop and
\* execute().
RECURSIVE unwind(_, _, _, _)
unwind(acts, i, out, st) ==
    IF i = 0
    THEN [calls |-> st.calls, outs |-> st.outs,
          ret |-> IF st.success THEN "True" ELSE "False"]
    ELSE LET c == Append(st.calls, acts[i].id)
             o == Append(st.outs, out[i])
         IN  IF out[i] = "interrupt"
             THEN [calls |-> c, outs |-> o, ret |-> "KeyboardInterrupt"]
             ELSE unwind(acts, i - 1, out,
                         [calls |-> c, outs |-> o,
                          success |-> st.success /\ out[i] = "ok"])

\* Faulty variant: the loop runs over self.actions instead of reversed(self.actions).
RECURSIVE unwind_forward(_, _, _, _)
unwind_forward(acts, i, out, st) ==
    IF i > Len(acts)
    THEN [calls |-> st.calls, outs |-> st.outs,
          ret |-> IF st.success THEN "True" ELSE "False"]
    ELSE LET c == Append(st.calls, acts[i].id)
             o == Append(st.outs, out[i])
         IN  IF out[i] = "interrupt"
             THEN [calls |-> c, outs |-> o, ret |-> "KeyboardInterrupt"]
             ELSE unwind_forward(acts, i + 1, out,
                                 [calls |-> c, outs |-> o,
                                  success |-> st.success /\ out[i] = "ok"])

execute_forward(self, out) ==
    IF ~self.enabled \/ self.actions = <<>>
    THEN [calls |-> <<>>, outs |-> <<>>, ret |-> "True"]
    ELSE unwind_forward(self.actions, 1, out,
                        [calls |-> <<>>, outs |-> <<>>, success |-> TRUE])

\* Faulty variant: the loop stops at the first action that raises.
RECURSIVE unwind_break(_, _, _, _)
unwind_break(acts, i, out, st) ==
    IF i = 0
    THEN [calls |-> st.calls, outs |-> st.outs, ret |-> "True"]
    ELSE LET c == Append(st.calls, acts[i].id)
             o == Append(st.outs, out[i])
         IN  IF out[i] = "interrupt"
             THEN [calls |-> c, outs |-> o, ret |-> "KeyboardInterrupt"]
             ELSE IF out[i] = "raise"
             THEN [calls |-> c, outs |-> o, ret |-> "False"]
             ELSE unwind_break(acts, i - 1, out, [calls |-> c, outs |-> o])

execute_break(self, out) ==
    IF ~self.enabled \/ self.actions = <<>>
    THEN [calls |-> <<>>, outs |-> <<>>, ret |-> "True"]
    ELSE unwind_break(self.actions, Len(self.actions), out,
                      [calls |-> <<>>, outs |-> <<>>])

\* Faulty variant: success is overwritten by each invocation instead of only ever
\* being lowered.
RECURSIVE unwind_last_wins(_, _, _, _)
unwind_last_wins(acts, i, out, st) ==
    IF i = 0
    THEN [calls |-> st.calls, outs |-> st.outs,
          ret |-> IF st.success THEN "True" ELSE "False"]
    ELSE LET c == Append(st.calls, acts[i].id)
             o == Append(st.outs, out[i])
         IN  IF out[i] = "interrupt"
             THEN [calls |-> c, outs |-> o, ret |-> "KeyboardInterrupt"]
             ELSE unwind_last_wins(acts, i - 1, out,
                                   [calls |-> c, outs |-> o,
                                    success |-> out[i] = "ok"])

execute_last_wins(self, out) ==
    IF ~self.enabled \/ self.actions = <<>>
    THEN [calls |-> <<>>, outs |-> <<>>, ret |-> "True"]
    ELSE unwind_last_wins(self.actions, Len(self.actions), out,
                          [calls |-> <<>>, outs |-> <<>>, success |-> TRUE])

\* Faulty variant: an empty log is reported as a failed rollback.
execute_empty_false(self, out) ==
    IF ~self.enabled
    THEN [calls |-> <<>>, outs |-> <<>>, ret |-> "True"]
    ELSE IF self.actions = <<>>
    THEN [calls |-> <<>>, outs |-> <<>>, ret |-> "False"]
    ELSE unwind(self.actions, Len(self.actions), out,
                [calls |-> <<>>, outs |-> <<>>, success |-> TRUE])

\* RollbackManager.execute: the invocations it makes and how it ends.
\* self is not modified.
execute(self, out) ==
    IF ~self.enabled
    THEN [calls |-> <<>>, outs |-> <<>>, ret |-> "True"]
    ELSE IF self.actions = <<>>
    THEN [calls |-> <<>>, outs |-> <<>>, ret |-> "True"]
    ELSE unwind(self.actions, Len(self.actions), out,
                [calls |-> <<>>, outs |-> <<>>, success |-> TRUE])

\* The config an undo action acts on when execute() invokes it.
\* add_action keeps args as passed (rollback.py:51-56), so the action holds
\* the DeploymentConfig object itself, not a copy; the callee reads its
\* fields when it is called (rollback.py:94,119-138).
InvokedWith(cfgNow, cfgAtRegistration) == cfgNow

\* The variables of the single-function specifications and of run_cleanup
\* where they play no part.
NoCall ==
    /\ call = [fn |-> "none"]
    /\ outcome = [kind |-> "none"]

NoCleanup ==
    /\ remove_volumes = FALSE
    /\ remove_image = FALSE
    /\ remove_config = FALSE
    /\ remove_all = FALSE
    /\ volume_exists = FALSE
    /\ image_exists = FALSE

\* ------------------------------------------- SpecRM: one RollbackManager

\* A RollbackManager as constructed, nothing unwound, one config.
FreshManager ==
    /\ rollback = RollbackManager
    /\ calls = <<>>
    /\ outs = <<>>
    /\ ret = "none"
    /\ lastOp = "init"
    /\ nextId = 0
    /\ clearedAt = 0
    /\ everDisabled = FALSE
    /\ config = 0
    /\ boundCfg = <<>>
    /\ usedCfg = <<>>
    /\ rollback2 = RollbackManager
    /\ regB = {}

\* No workflow is running.
NoWorkflow ==
    /\ cmd = "none"
    /\ pc = "idle"
    /\ auto_rollback = TRUE
    /\ skip_health_check = FALSE
    /\ interactive = FALSE
    /\ env_exists = FALSE
    /\ container_exists = FALSE
    /\ ops = <<>>
    /\ result = "none"
    /\ port_in_use = FALSE
    /\ prereqs_ok = TRUE

InitRM ==
    /\ FreshManager
    /\ NoWorkflow
    /\ NoCall
    /\ NoCleanup

AddAction ==
    /\ nextId < MaxReg
    /\ \E name \in ActionNames :
         rollback' = add_action(rollback, name, nextId + 1)
    /\ nextId' = nextId + 1
    /\ lastOp' = "add_action"
    /\ boundCfg' = Append(boundCfg, config)
    /\ UNCHANGED <<calls, outs, ret, clearedAt, everDisabled>>
    /\ UNCHANGED <<wfVars, fnVars, clVars, config, usedCfg, rollback2, regB>>

Disable ==
    /\ rollback' = disable(rollback)
    /\ everDisabled' = TRUE
    /\ lastOp' = "disable"
    /\ UNCHANGED <<calls, outs, ret, nextId, clearedAt>>
    /\ UNCHANGED <<wfVars, fnVars, clVars, auxVars>>

\* Faulty variant: clear() raises on an empty log and completes only
\* when there is something to drop.
Clear_needs_actions ==
    /\ rollback.actions # <<>>
    /\ rollback' = clear(rollback)
    /\ clearedAt' = nextId
    /\ lastOp' = "clear"
    /\ UNCHANGED <<calls, outs, ret, nextId, everDisabled>>
    /\ UNCHANGED <<wfVars, fnVars, clVars, auxVars>>

Clear ==
    /\ rollback' = clear(rollback)
    /\ clearedAt' = nextId
    /\ lastOp' = "clear"
    /\ UNCHANGED <<calls, outs, ret, nextId, everDisabled>>
    /\ UNCHANGED <<wfVars, fnVars, clVars, auxVars>>

\* Faulty variant: execute() drains the log it has unwound.
Execute_drains ==
    /\ \E out \in [1..Len(rollback.actions) -> Outcomes] :
         LET r == execute(rollback, out)
         IN  /\ calls' = r.calls
             /\ outs' = r.outs
             /\ ret' = r.ret
             /\ usedCfg' = [j \in 1..Len(r.calls) |-> InvokedWith(config, boundCfg[r.calls[j]])]
             /\ rollback' = IF r.calls = <<>> THEN rollback ELSE clear(rollback)
    /\ lastOp' = "execute"
    /\ UNCHANGED <<nextId, clearedAt, everDisabled>>
    /\ UNCHANGED <<wfVars, fnVars, clVars, config, boundCfg, rollback2, regB>>

Execute ==
    /\ \E out \in [1..Len(rollback.actions) -> Outcomes] :
         LET r == execute(rollback, out)
         IN  /\ calls' = r.calls
             /\ outs' = r.outs
             /\ ret' = r.ret
             /\ usedCfg' = [j \in 1..Len(r.calls) |-> InvokedWith(config, boundCfg[r.calls[j]])]
    /\ lastOp' = "execute"
    /\ UNCHANGED <<rollback, nextId, clearedAt, everDisabled>>
    /\ UNCHANGED <<wfVars, fnVars, clVars, config, boundCfg, rollback2, regB>>

NextRM == AddAction \/ Disable \/ Clear \/ Execute

SpecRM == InitRM /\ [][NextRM]_vars

\* ------------------- SpecArgs: one RollbackManager, a caller-held config

\* The caller changes a field of the DeploymentConfig object it passed to
\* add_action (config.py: a plain mutable dataclass), as generate_env_file
\* does with gateway_token (docker_utils.py:139-152).
MutateConfig ==
    /\ config < MaxCfg
    /\ config' = config + 1
    /\ lastOp' = "mutate"
    /\ UNCHANGED <<rollback, calls, outs, ret, nextId, clearedAt, everDisabled>>
    /\ UNCHANGED <<wfVars, fnVars, clVars, boundCfg, usedCfg, rollback2, regB>>

NextArgs == NextRM \/ MutateConfig

SpecArgs == InitRM /\ [][NextArgs]_vars

\* ------------------------------------------- SpecCmd: run_command

Return(c, rc) ==
    [kind |-> "return", exc |-> "", msg |-> <<>>, returncode |-> rc,
     stdout |-> c.stdout, stderr |-> c.stderr]

Raise(exc, msg) ==
    [kind |-> "raise", exc |-> exc, msg |-> msg, returncode |-> 0,
     stdout |-> "", stderr |-> ""]

\* The exceptions in play that derive from Exception; KeyboardInterrupt
\* derives from BaseException only.
IsException(exc) == exc \in {"DockerError", "TimeoutExpired", "OSError", "TypeError"}

\* The try block of run_command (docker_utils.py:47-63): ' '.join(cmd)
\* raises TypeError when cmd holds a non-string; subprocess.run is called
\* with check=False and returns the exit status, or raises
\* TimeoutExpired, an OSError when the program cannot be launched, or
\* KeyboardInterrupt; then "if check and result.returncode != 0: raise
\* DockerError" with stderr, or stdout when stderr is empty.
run_command_try(c) ==
    IF ~c.cmd_is_strs THEN Raise("TypeError", <<>>)
    ELSE IF c.proc = "exit"
    THEN (IF c.check /\ c.returncode # 0
          THEN Raise("DockerError",
                     <<"Command failed", IF c.stderr # "" THEN c.stderr ELSE c.stdout>>)
          ELSE Return(c, c.returncode))
    ELSE Raise(c.proc, <<>>)

\* Faulty variant: no "except Exception" clause, so only the timeout is
\* turned into a DockerError.
run_command_no_catch_all(c) ==
    LET b == run_command_try(c)
    IN  IF b.kind = "raise" /\ b.exc = "TimeoutExpired"
        THEN Raise("DockerError", <<"Command timed out", "">>)
        ELSE b

\* run_command (docker_utils.py:22-67): the try block, then "except
\* subprocess.TimeoutExpired" and "except Exception", both raising
\* DockerError.  The DockerError of a non-zero exit is raised inside the
\* try block and is wrapped by "except Exception" as well.
run_command(c) ==
    LET b == run_command_try(c)
    IN  IF b.kind = "return" THEN b
        ELSE IF b.exc = "TimeoutExpired"
        THEN Raise("DockerError", <<"Command timed out", "">>)
        ELSE IF IsException(b.exc)
        THEN Raise("DockerError", <<"Command execution error", b.exc>>)
        ELSE b

\* What subprocess.run can do; it raises TimeoutExpired only when a
\* timeout was given.
ProcOutcomes(has_timeout) ==
    {"exit", "OSError", "KeyboardInterrupt"} \cup
    (IF has_timeout THEN {"TimeoutExpired"} ELSE {})

Texts == {"", "text"}

RunCommandCalls ==
    {c \in [fn : {"run_command"}, check : BOOLEAN, cmd_is_strs : BOOLEAN,
             has_timeout : BOOLEAN,
             proc : {"exit", "OSError", "KeyboardInterrupt", "TimeoutExpired"},
             returncode : (0 - MaxRc)..MaxRc, stdout : Texts, stderr : Texts] :
        /\ c.proc \in ProcOutcomes(c.has_timeout)
        /\ c.proc # "exit" => (c.returncode = 0 /\ c.stdout = "" /\ c.stderr = "")}

InitCmd ==
    /\ FreshManager
    /\ NoWorkflow
    /\ NoCleanup
    /\ call \in RunCommandCalls
    /\ outcome = [kind |-> "none"]

RunCommand ==
    /\ outcome.kind = "none"
    /\ outcome' = run_command(call)
    /\ UNCHANGED <<rmVars, wfVars, auxVars, clVars, call>>

NextCmd == RunCommand

SpecCmd == InitCmd /\ [][NextCmd]_vars

\* ------------------ SpecEnv: save_env_file followed by from_env_file

\* Strings are sequences of characters.  A key of the .env file and the
\* default "lan" are each written as one character.
Chars == {"a", " ", "\n", "="}

Strs == UNION {[1..n -> Chars] : n \in 0..MaxLen}

None == <<"None">>

\* The fields of DeploymentConfig that env_map names, one of each kind of
\* default: None (gateway_token, the API keys, ollama_base_url), a
\* non-empty string (gateway_bind, home_volume), "" (apt_packages).
EnvFields == <<"gateway_token", "gateway_bind", "apt_packages">>

EnvKeys == <<"OPENCLAW_GATEWAY_TOKEN", "OPENCLAW_GATEWAY_BIND",
             "OPENCLAW_DOCKER_APT_PACKAGES">>

\* DeploymentConfig(): the defaults (config.py:28-29,38)
DeploymentConfig ==
    [gateway_token |-> None, gateway_bind |-> <<"lan">>, apt_packages |-> <<>>]

\* "if self.<field>:" is true of a string that is not empty.
Truthy(v) == v # None /\ v # <<>>

RECURSIVE to_env_dict_from(_, _)
to_env_dict_from(self, i) ==
    IF i > Len(EnvFields) THEN <<>>
    ELSE (IF Truthy(self[EnvFields[i]])
          THEN <<[key |-> EnvKeys[i], value |-> self[EnvFields[i]]]>>
          ELSE <<>>) \o to_env_dict_from(self, i + 1)

\* to_env_dict (config.py:63-84): the fields that are set, in order.
to_env_dict(self) == to_env_dict_from(self, 1)

RECURSIVE write_items(_)
write_items(items) ==
    IF items = <<>> THEN <<>>
    ELSE ((<<Head(items).key, "=">> \o Head(items).value) \o <<"\n">>)
         \o write_items(Tail(items))

\* save_env_file (config.py:150-160): two comment lines, an empty line,
\* then f"{key}={value}\n" for every item.
save_env_file(self) ==
    <<"#", "\n", "#", "\n", "\n">> \o write_items(to_env_dict(self))

\* str.strip(): blanks and newlines off both ends.
White == {" ", "\n"}

RECURSIVE lstrip(_)
lstrip(str) == IF str # <<>> /\ Head(str) \in White THEN lstrip(Tail(str)) ELSE str

RECURSIVE rstrip(_)
rstrip(str) ==
    IF str # <<>> /\ str[Len(str)] \in White
    THEN rstrip(SubSeq(str, 1, Len(str) - 1))
    ELSE str

strip(str) == rstrip(lstrip(str))

\* "for line in f": the text cut after every newline.
RECURSIVE readlines(_, _)
readlines(text, line) ==
    IF text = <<>> THEN (IF line = <<>> THEN <<>> ELSE <<line>>)
    ELSE IF Head(text) = "\n"
    THEN <<Append(line, "\n")>> \o readlines(Tail(text), <<>>)
    ELSE readlines(Tail(text), Append(line, Head(text)))

\* Position of the first "=" of a line that has one.
find_eq(line) ==
    CHOOSE i \in 1..Len(line) :
        line[i] = "=" /\ \A j \in 1..(i - 1) : line[j] # "="

\* env_map (config.py:128-137)
InEnvMap(key) == \E i \in 1..Len(EnvKeys) : key = <<EnvKeys[i]>>

EnvField(key) == EnvFields[CHOOSE i \in 1..Len(EnvKeys) : key = <<EnvKeys[i]>>]

\* One line of from_env_file (config.py:116-140): strip; skip an empty
\* line, a comment and a line without "="; split at the first "=", strip
\* key and value; "if key in env_map and value: setattr(...)".
load_line(cfg, raw) ==
    LET line == strip(raw)
    IN  IF line = <<>> \/ Head(line) = "#" THEN cfg
        ELSE IF ~\E i \in 1..Len(line) : line[i] = "=" THEN cfg
        ELSE LET key == strip(SubSeq(line, 1, find_eq(line) - 1))
                 value == strip(SubSeq(line, find_eq(line) + 1, Len(line)))
             IN  IF InEnvMap(key) /\ value # <<>>
                 THEN [cfg EXCEPT ![EnvField(key)] = value]
                 ELSE cfg

RECURSIVE load_lines(_, _)
load_lines(cfg, lines) ==
    IF lines = <<>> THEN cfg
    ELSE load_lines(load_line(cfg, Head(lines)), Tail(lines))

\* from_env_file (config.py:107-142) on an existing file
from_env_file(text) == load_lines(DeploymentConfig, readlines(text, <<>>))

Configs ==
    [gateway_token : Strs \cup {None},
     gateway_bind : Strs \cup {<<"lan">>},
     apt_packages : Strs]

InitEnv ==
    /\ FreshManager
    /\ NoWorkflow
    /\ NoCleanup
    /\ call \in [fn : {"save_env_file"}, config : Configs]
    /\ outcome = [kind |-> "none"]

SaveEnvFile ==
    /\ call.fn = "save_env_file" /\ outcome.kind = "none"
    /\ outcome' = [kind |-> "saved", text |-> save_env_file(call.config)]
    /\ UNCHANGED <<rmVars, wfVars, auxVars, clVars, call>>

FromEnvFile ==
    /\ outcome.kind = "saved"
    /\ outcome' = [kind |-> "loaded", config |-> from_env_file(outcome.text)]
    /\ UNCHANGED <<rmVars, wfVars, auxVars, clVars, call>>

NextEnv == SaveEnvFile \/ FromEnvFile

SpecEnv == InitEnv /\ [][NextEnv]_vars

\* ----------------------------------------------- SpecLoad: load_config

\* Two attributes of DeploymentConfig stand for all: gateway_token, which
\* a .env file can set, and gateway_port, which only a YAML file can.
Attrs == {"gateway_token", "gateway_port"}

Vals == {<<"a">>, <<"b">>}

\* DeploymentConfig() as a function of the attribute name
Defaults == [f \in Attrs |-> IF f = "gateway_token" THEN None ELSE <<"18789">>]

\* What from_yaml can return, and what from_env_file can.
YamlConfigs == {c \in [Attrs -> Vals \cup {None, <<"18789">>}] :
                   c["gateway_port"] # None /\ c["gateway_token"] # <<"18789">>}

EnvConfigs == {c \in YamlConfigs : c["gateway_port"] = Defaults["gateway_port"]}

\* **overrides: some keywords, each with a value or None; "bogus" is no
\* attribute of the config.
OverrideKeys == Attrs \cup {"bogus"}

Overrides == UNION {[K -> Vals \cup {None}] : K \in SUBSET OverrideKeys}

\* "for key, value in overrides.items(): if value is not None and
\* hasattr(config, key): setattr(config, key, value)" (config.py:187-190)
apply_overrides(base, overrides) ==
    LET set == {k \in DOMAIN overrides : overrides[k] # None /\ k \in DOMAIN base}
    IN  [f \in DOMAIN base \cup set |-> IF f \in set THEN overrides[f] ELSE base[f]]

\* Faulty variant: the .env file is preferred to the YAML file.
load_config_env_first(c) ==
    apply_overrides(IF c.env_file /\ c.env_exists THEN c.env
                    ELSE IF c.config_file /\ c.yaml_exists THEN c.yaml
                    ELSE Defaults,
                    c.overrides)

\* load_config (config.py:163-192): "if config_file and
\* config_file.exists(): from_yaml; elif env_file and env_file.exists():
\* from_env_file; else DeploymentConfig()", then the overrides.
load_config(c) ==
    apply_overrides(IF c.config_file /\ c.yaml_exists THEN c.yaml
                    ELSE IF c.env_file /\ c.env_exists THEN c.env
                    ELSE Defaults,
                    c.overrides)

\* config_file and env_file: whether a path was given; a file that does
\* not exist has no content.
LoadConfigCalls ==
    {c \in [fn : {"load_config"}, config_file : BOOLEAN, yaml_exists : BOOLEAN,
             yaml : YamlConfigs, env_file : BOOLEAN, env_exists : BOOLEAN,
             env : EnvConfigs, overrides : Overrides] :
        /\ (~c.config_file \/ ~c.yaml_exists) => c.yaml = Defaults
        /\ ~c.config_file => ~c.yaml_exists
        /\ (~c.env_file \/ ~c.env_exists) => c.env = Defaults
        /\ ~c.env_file => ~c.env_exists}

InitLoad ==
    /\ FreshManager
    /\ NoWorkflow
    /\ NoCleanup
    /\ call \in LoadConfigCalls
    /\ outcome = [kind |-> "none"]

LoadConfig ==
    /\ call.fn = "load_config" /\ outcome.kind = "none"
    /\ outcome' = [kind |-> "config", config |-> load_config(call)]
    /\ UNCHANGED <<rmVars, wfVars, auxVars, clVars, call>>

NextLoad == LoadConfig

SpecLoad == InitLoad /\ [][NextLoad]_vars

\* ---------------------------------------- SpecWait: wait_for_healthy

\* What get_container_status and get_container_health can return; "None"
\* is None (no such container, docker failing, no health check defined).
Statuses == {"running", "exited", "dead", "created", "None"}

Healths == {"healthy", "unhealthy", "starting", "None"}

Observations == [status : Statuses, health : Healths]

NoObservation == [status |-> "", health |-> ""]

\* What wait_for_healthy never changes.
waitFrame == <<rmVars, auxVars, clVars, cmd, auto_rollback, skip_health_check,
               interactive, env_exists, container_exists, ops, port_in_use,
               prereqs_ok, call>>

\* start_time = time.time(); retries = 0
InitWait ==
    /\ FreshManager
    /\ NoCleanup
    /\ cmd = "wait_for_healthy"
    /\ pc = "while"
    /\ auto_rollback = TRUE
    /\ skip_health_check = FALSE
    /\ interactive = FALSE
    /\ env_exists = FALSE
    /\ container_exists = FALSE
    /\ ops = <<>>
    /\ result = "none"
    /\ port_in_use = FALSE
    /\ prereqs_ok = TRUE
    /\ call \in [fn : {"wait_for_healthy"}, timeout : 0..MaxTimeout,
                  interval : 1..MaxInterval]
    /\ outcome = [kind |-> "waiting", elapsed |-> 0, retries |-> 0, polls |-> 0,
                  last |-> NoObservation]

\* Faulty variant: the loop goes on while the elapsed time is at most the
\* timeout.
WaitWhile_inclusive ==
    /\ cmd = "wait_for_healthy" /\ pc = "while"
    /\ IF outcome.elapsed <= call.timeout
       THEN pc' = "poll" /\ UNCHANGED result
       ELSE pc' = "done" /\ result' = "False"
    /\ UNCHANGED <<waitFrame, outcome>>

\* "while time.time() - start_time < timeout:", and after the loop
\* "return False"
WaitWhile ==
    /\ cmd = "wait_for_healthy" /\ pc = "while"
    /\ IF outcome.elapsed < call.timeout
       THEN pc' = "poll" /\ UNCHANGED result
       ELSE pc' = "done" /\ result' = "False"
    /\ UNCHANGED <<waitFrame, outcome>>

\* Faulty variant: an unhealthy or exited container is polled again.
decide_patient(obs, retries) ==
    IF obs.status = "running"
       /\ (obs.health = "healthy"
           \/ (obs.health = "None" /\ retries > NoHealthCheckRetries))
    THEN "True"
    ELSE ""

\* Faulty variant: a running container without health check is accepted
\* at the first poll.
decide_no_retries(obs, retries) ==
    IF obs.status = "running"
    THEN (IF obs.health \in {"healthy", "None"} THEN "True"
          ELSE IF obs.health = "unhealthy" THEN "False"
          ELSE "")
    ELSE IF obs.status \in {"exited", "dead"} THEN "False"
    ELSE ""

\* What one pass of the loop body decides on status and health with
\* retries earlier polls (docker_utils.py:315-329); "" is no decision.
decide(obs, retries) ==
    IF obs.status = "running"
    THEN (IF obs.health = "healthy" THEN "True"
          ELSE IF obs.health = "unhealthy" THEN "False"
          ELSE IF obs.health = "None" /\ retries > NoHealthCheckRetries THEN "True"
          ELSE "")
    ELSE IF obs.status \in {"exited", "dead"} THEN "False"
    ELSE ""

\* One pass of the loop body: the two inspections, the decision, else
\* "retries += 1; time.sleep(interval)".  The pass takes the interval and
\* the time of the inspections; Ctrl-C ends it with KeyboardInterrupt.
WaitPoll ==
    /\ cmd = "wait_for_healthy" /\ pc = "poll"
    /\ \E obs \in Observations, lag \in 0..MaxLag, interrupted \in BOOLEAN :
         LET d == decide(obs, outcome.retries)
             seen == [outcome EXCEPT !.last = obs, !.polls = @ + 1]
         IN  IF d # ""
             THEN /\ outcome' = seen
                  /\ result' = d
                  /\ pc' = "done"
             ELSE IF interrupted
             THEN /\ outcome' = seen
                  /\ result' = "KeyboardInterrupt"
                  /\ pc' = "done"
             ELSE /\ outcome' = [seen EXCEPT !.retries = @ + 1,
                                             !.elapsed = @ + call.interval + lag]
                  /\ pc' = "while"
                  /\ UNCHANGED result
    /\ UNCHANGED waitFrame

NextWait == WaitWhile \/ WaitPoll

SpecWait == InitWait /\ [][NextWait]_vars

\* The loop is not suspended for ever: the process keeps running.
SpecWaitLive == SpecWait /\ WF_vars(NextWait)

\* ---------------------------------------------- SpecStatus: run_status

\* Container names, as character sequences: the configured name may be
\* contained in the name of another container.
ContainerNames == {<<"g">>, <<"g", "2">>, <<"x">>}

\* A container known to docker: its State.Status and State.Health.Status;
\* health "<no value>" is a container without health check.
Absent == [status |-> "absent", health |-> "<no value>"]

ContainerStates ==
    [status : {"running", "exited"},
     health : {"healthy", "unhealthy", "starting", "<no value>"}] \cup {Absent}

\* "x in s" on Python strings
Contains(s, x) ==
    \E i \in 0..(Len(s) - Len(x)) : SubSeq(s, i + 1, i + Len(x)) = x

\* The names "docker ps [-a] --filter name=X --format {{.Names}}" prints:
\* docker's name filter matches every container whose name contains X.
docker_ps(docker, name, all) ==
    IF ~docker.up THEN {}
    ELSE {n \in ContainerNames :
            /\ docker.containers[n] # Absent
            /\ all \/ docker.containers[n].status = "running"
            /\ Contains(n, name)}

\* "return container_name in result.stdout"
check_container_exists(docker, name) ==
    \E n \in docker_ps(docker, name, TRUE) : Contains(n, name)

check_container_running(docker, name) ==
    \E n \in docker_ps(docker, name, FALSE) : Contains(n, name)

\* "docker inspect --format ... X" finds the container named X exactly.
docker_inspect(docker, name, field) ==
    IF docker.up /\ name \in ContainerNames /\ docker.containers[name] # Absent
    THEN [returncode |-> 0, stdout |-> docker.containers[name][field]]
    ELSE [returncode |-> 1, stdout |-> ""]

get_container_status(docker, name) ==
    LET res == docker_inspect(docker, name, "status")
    IN  IF res.returncode = 0 THEN res.stdout ELSE "None"

get_container_health(docker, name) ==
    LET res == docker_inspect(docker, name, "health")
    IN  IF res.returncode = 0 /\ res.stdout # "" /\ res.stdout # "<no value>"
        THEN res.stdout
        ELSE "None"

get_deployment_info(docker, name) ==
    [container_exists  |-> check_container_exists(docker, name),
     container_running |-> check_container_running(docker, name),
     container_status  |-> get_container_status(docker, name),
     container_health  |-> get_container_health(docker, name)]

\* "is_healthy = (...)" of run_status
is_healthy(info) ==
    /\ info.container_exists
    /\ info.container_running
    /\ info.container_health \in {"healthy", "None"}

RunStatusCalls ==
    [fn : {"run_status"},
     container_name : {<<"g">>, <<"g", "2">>},
     docker : [up : BOOLEAN, containers : [ContainerNames -> ContainerStates]]]

InitStatus ==
    /\ FreshManager
    /\ NoWorkflow
    /\ NoCleanup
    /\ call \in RunStatusCalls
    /\ outcome = [kind |-> "none"]

\* run_status with a loadable configuration
RunStatus ==
    /\ call.fn = "run_status"
    /\ outcome.kind = "none"
    /\ LET info == get_deployment_info(call.docker, call.container_name)
       IN  outcome' = [kind |-> "returned", info |-> info,
                       value |-> is_healthy(info)]
    /\ UNCHANGED <<rmVars, wfVars, auxVars, clVars, call>>

NextStatus == RunStatus

SpecStatus == InitStatus /\ [][NextStatus]_vars

\* ----------------------------------- SpecTwo: two RollbackManagers

\* Faulty variant: the log is a class attribute, shared by every manager.
AddAction2_shared ==
    /\ nextId < MaxRegTwo
    /\ \E name \in ActionNames :
         /\ rollback2' = add_action(rollback2, name, nextId + 1)
         /\ rollback' = add_action(rollback, name, nextId + 1)
    /\ nextId' = nextId + 1
    /\ regB' = regB \cup {nextId + 1}
    /\ lastOp' = "add_action2"
    /\ boundCfg' = Append(boundCfg, config)
    /\ UNCHANGED <<calls, outs, ret, clearedAt, everDisabled>>
    /\ UNCHANGED <<wfVars, fnVars, clVars, config, usedCfg>>

AddAction2 ==
    /\ nextId < MaxRegTwo
    /\ \E name \in ActionNames :
         rollback2' = add_action(rollback2, name, nextId + 1)
    /\ nextId' = nextId + 1
    /\ regB' = regB \cup {nextId + 1}
    /\ lastOp' = "add_action2"
    /\ boundCfg' = Append(boundCfg, config)
    /\ UNCHANGED <<rollback, calls, outs, ret, clearedAt, everDisabled>>
    /\ UNCHANGED <<wfVars, fnVars, clVars, config, usedCfg>>

Disable2 ==
    /\ rollback2' = disable(rollback2)
    /\ lastOp' = "disable2"
    /\ UNCHANGED <<rollback, calls, outs, ret, nextId, clearedAt, everDisabled>>
    /\ UNCHANGED <<wfVars, fnVars, clVars, config, boundCfg, usedCfg, regB>>

Clear2 ==
    /\ rollback2' = clear(rollback2)
    /\ lastOp' = "clear2"
    /\ UNCHANGED <<rollback, calls, outs, ret, nextId, clearedAt, everDisabled>>
    /\ UNCHANGED <<wfVars, fnVars, clVars, config, boundCfg, usedCfg, regB>>

Execute2 ==
    /\ \E out \in [1..Len(rollback2.actions) -> Outcomes] :
         LET r == execute(rollback2, out)
         IN  /\ calls' = r.calls
             /\ outs' = r.outs
             /\ ret' = r.ret
             /\ usedCfg' = [j \in 1..Len(r.calls) |-> InvokedWith(config, boundCfg[r.calls[j]])]
    /\ lastOp' = "execute2"
    /\ UNCHANGED <<rollback, rollback2, nextId, clearedAt, everDisabled>>
    /\ UNCHANGED <<wfVars, fnVars, clVars, config, boundCfg, regB>>

\* add_action on the first manager, within the bound of SpecTwo.
AddAction1 ==
    /\ nextId < MaxRegTwo
    /\ AddAction

NextTwo ==
    \/ AddAction1 \/ Disable \/ Clear \/ Execute
    \/ AddAction2 \/ Disable2 \/ Clear2 \/ Execute2

SpecTwo == InitRM /\ [][NextTwo]_vars

\* ------------------------------------------------- workflow drivers

Ev(op, arg, res) == [op |-> op, arg |-> arg, res |-> res]

NameOf(acts, id) == acts[CHOOSE i \in 1..Len(acts) : acts[i].id = id].name

\* What the callables registered by the drivers can do when invoked.
\* "Remove .env file" is env_file.unlink (deploy.py:111,114): it raises
\* FileNotFoundError when the file is gone.  "Stop services" is
\* cleanup_failed_deployment (rollback.py:107-142), which catches every
\* Exception of its own steps.  "Start services" is start_services
\* (docker_utils.py:179-193), which raises DockerError.
ActionOutcomes(name, envx) ==
    IF name = "Remove .env file"
    THEN (IF envx THEN {"ok", "raise", "interrupt"} ELSE {"raise", "interrupt"})
    ELSE IF name = "Stop services"
    THEN {"ok", "interrupt"}
    ELSE {"ok", "raise", "interrupt"}

UndoOuts(acts, envx) ==
    {out \in [1..Len(acts) -> Outcomes] :
        \A i \in 1..Len(acts) : out[i] \in ActionOutcomes(acts[i].name, envx)}

\* .env after an execute(): gone once env_file.unlink has succeeded.
EnvAfter(envx, acts, r) ==
    envx /\ ~\E j \in 1..Len(r.calls) :
                NameOf(acts, r.calls[j]) = "Remove .env file" /\ r.outs[j] = "ok"

\* The events of one execute() call: the call, then each undo invocation.
ExecEvents(acts, r) ==
    <<Ev("execute", "", r.ret)>> \o
    [j \in 1..Len(r.calls) |-> Ev("undo", NameOf(acts, r.calls[j]), r.outs[j])]

\* Outcomes of the forward steps: what each can raise inside the try block.
\* validate_and_report(strict=True) raises ValidationError unless every
\* check of validate_all_prerequisites passed (validators.py:245-257);
\* check_port_available fails when a connection to localhost:port
\* succeeds (validators.py:132-141).
all_passed == prereqs_ok /\ ~port_in_use

ValidateOutcomes ==
    (IF all_passed THEN {"ok"} ELSE {"ValidationError"}) \cup {"KeyboardInterrupt"}
FileOutcomes == {"ok", "Exception", "KeyboardInterrupt"}
DockerOutcomes == {"ok", "DockerError", "KeyboardInterrupt"}
HealthOutcomes == {"True", "False", "KeyboardInterrupt"}
InputOutcomes == {"y", "n", "Exception", "KeyboardInterrupt"}

InitWF ==
    /\ rollback = RollbackManager
    /\ calls = <<>>
    /\ outs = <<>>
    /\ ret = "none"
    /\ lastOp = "init"
    /\ nextId = 0
    /\ clearedAt = 0
    /\ everDisabled = FALSE
    /\ cmd \in {"deploy", "update"}
    /\ pc = "begin"
    /\ auto_rollback \in BOOLEAN
    /\ skip_health_check \in BOOLEAN
    /\ interactive \in (IF cmd = "deploy" THEN BOOLEAN ELSE {FALSE})
    /\ env_exists \in BOOLEAN
    /\ container_exists \in (IF cmd = "update" THEN BOOLEAN ELSE {FALSE})
    /\ ops = <<>>
    /\ result = "none"
    /\ port_in_use \in BOOLEAN
    /\ prereqs_ok \in BOOLEAN
    /\ config = 0
    /\ boundCfg = <<>>
    /\ usedCfg = <<>>
    /\ rollback2 = RollbackManager
    /\ regB = {}
    /\ NoCall
    /\ NoCleanup

params == <<cmd, auto_rollback, skip_health_check, interactive, container_exists,
            port_in_use, prereqs_ok, auxVars, fnVars, clVars>>

\* A forward step that registers nothing completed: go on to the next.
Proceed(evs, next) ==
    /\ ops' = ops \o evs
    /\ pc' = next
    /\ UNCHANGED <<rmVars, env_exists, result, params>>

\* A forward step completed and its undo action is registered right after.
ProceedRegister(evs, name, next) ==
    /\ rollback' = add_action(rollback, name, nextId + 1)
    /\ nextId' = nextId + 1
    /\ lastOp' = "add_action"
    /\ ops' = (ops \o evs) \o <<Ev("add_action", name, "ok")>>
    /\ pc' = next
    /\ UNCHANGED <<calls, outs, ret, clearedAt, everDisabled, result, params>>

\* Faulty variant: the except clauses return False without unwinding.
HandleFailure_no_execute(evs, out) ==
    /\ ops' = ops \o evs
    /\ result' = "False"
    /\ pc' = "done"
    /\ UNCHANGED <<rmVars, env_exists, params>>

\* Faulty variant: there is no "except KeyboardInterrupt" clause, so an
\* interrupted step leaves the function without unwinding.
HandleFailure_interrupt_escapes(evs, out) ==
    /\ IF evs[Len(evs)].res = "KeyboardInterrupt"
       THEN /\ ops' = ops \o evs
            /\ result' = "KeyboardInterrupt"
            /\ UNCHANGED <<calls, outs, ret, lastOp, env_exists>>
       ELSE IF auto_rollback
       THEN LET r == execute(rollback, out)
            IN  /\ ops' = (ops \o evs) \o ExecEvents(rollback.actions, r)
                /\ calls' = r.calls
                /\ outs' = r.outs
                /\ ret' = r.ret
                /\ lastOp' = "execute"
                /\ env_exists' = EnvAfter(env_exists, rollback.actions, r)
                /\ result' = IF r.ret = "KeyboardInterrupt"
                             THEN "KeyboardInterrupt" ELSE "False"
       ELSE /\ ops' = ops \o evs
            /\ result' = "False"
            /\ UNCHANGED <<calls, outs, ret, lastOp, env_exists>>
    /\ pc' = "done"
    /\ UNCHANGED <<rollback, nextId, clearedAt, everDisabled, params>>

\* Faulty variant: the except clauses call rollback.clear() after
\* rollback.execute().
HandleFailure_clear_after(evs, out) ==
    /\ IF auto_rollback
       THEN LET r == execute(rollback, out)
            IN  /\ ops' = ((ops \o evs) \o ExecEvents(rollback.actions, r))
                          \o <<Ev("clear", "", "ok")>>
                /\ calls' = r.calls
                /\ outs' = r.outs
                /\ ret' = r.ret
                /\ env_exists' = EnvAfter(env_exists, rollback.actions, r)
                /\ result' = IF r.ret = "KeyboardInterrupt"
                             THEN "KeyboardInterrupt" ELSE "False"
                /\ rollback' = clear(rollback)
                /\ clearedAt' = nextId
                /\ lastOp' = "clear"
       ELSE /\ ops' = ops \o evs
            /\ result' = "False"
            /\ UNCHANGED <<calls, outs, ret, lastOp, env_exists, rollback, clearedAt>>
    /\ pc' = "done"
    /\ UNCHANGED <<nextId, everDisabled, params>>

\* The except clauses of run_deploy and run_update: after the events evs
\* of the step that raised, "if auto_rollback: rollback.execute()", then
\* "return False".  A KeyboardInterrupt out of execute() is raised inside
\* the except clause and leaves the function.
HandleFailure(evs, out) ==
    /\ IF auto_rollback
       THEN LET r == execute(rollback, out)
            IN  /\ ops' = (ops \o evs) \o ExecEvents(rollback.actions, r)
                /\ calls' = r.calls
                /\ outs' = r.outs
                /\ ret' = r.ret
                /\ lastOp' = "execute"
                /\ env_exists' = EnvAfter(env_exists, rollback.actions, r)
                /\ result' = IF r.ret = "KeyboardInterrupt"
                             THEN "KeyboardInterrupt" ELSE "False"
       ELSE /\ ops' = ops \o evs
            /\ result' = "False"
            /\ UNCHANGED <<calls, outs, ret, lastOp, env_exists>>
    /\ pc' = "done"
    /\ UNCHANGED <<rollback, nextId, clearedAt, everDisabled, params>>

\* A forward step raised o: control goes to the except clauses.
Fail(step, o) ==
    \E out \in UndoOuts(rollback.actions, env_exists) :
        HandleFailure(<<Ev(step, "", o)>>, out)

\* "rollback = RollbackManager(config); if not auto_rollback:
\* rollback.disable()"
Begin(next) ==
    /\ IF auto_rollback
       THEN /\ ops' = ops
            /\ UNCHANGED <<rollback, everDisabled, lastOp>>
       ELSE /\ rollback' = disable(rollback)
            /\ everDisabled' = TRUE
            /\ lastOp' = "disable"
            /\ ops' = Append(ops, Ev("disable", "", "ok"))
    /\ pc' = next
    /\ UNCHANGED <<calls, outs, ret, nextId, clearedAt, env_exists, result, params>>

\* Faulty variant: success is returned without rollback.clear().
ClearAndSucceed_no_clear(evs) ==
    /\ ops' = ops \o evs
    /\ result' = "True"
    /\ pc' = "done"
    /\ UNCHANGED <<rmVars, env_exists, params>>

\* "rollback.clear()" followed by "return True".
ClearAndSucceed(evs) ==
    /\ rollback' = clear(rollback)
    /\ clearedAt' = nextId
    /\ lastOp' = "clear"
    /\ ops' = (ops \o evs) \o <<Ev("clear", "", "ok")>>
    /\ result' = "True"
    /\ pc' = "done"
    /\ UNCHANGED <<calls, outs, ret, nextId, everDisabled, env_exists, params>>

\* ---- run_deploy

DeployBegin == cmd = "deploy" /\ pc = "begin" /\ Begin("validate")

\* Faulty variant: validate_and_report(strict=False), whose failure is
\* reported and the deployment goes on.
DeployValidate_not_strict ==
    /\ cmd = "deploy" /\ pc = "validate"
    /\ \E o \in ValidateOutcomes :
         IF o = "KeyboardInterrupt"
         THEN Fail("validate_and_report", o)
         ELSE Proceed(<<Ev("validate_and_report", "", o)>>, "create_directories")

\* Step 1: validate_and_report(strict=True)
DeployValidate ==
    /\ cmd = "deploy" /\ pc = "validate"
    /\ \E o \in ValidateOutcomes :
         IF o = "ok"
         THEN Proceed(<<Ev("validate_and_report", "", o)>>, "create_directories")
         ELSE Fail("validate_and_report", o)

\* Step 2: create_directories(config); no undo action
DeployCreateDirectories ==
    /\ cmd = "deploy" /\ pc = "create_directories"
    /\ \E o \in FileOutcomes :
         IF o = "ok"
         THEN Proceed(<<Ev("create_directories", "", o)>>, "env")
         ELSE Fail("create_directories", o)

\* generate_env_file(config) followed by
\* rollback.add_action("Remove .env file", env_file.unlink)
GenerateEnv(evs) ==
    \E o \in FileOutcomes :
        IF o = "ok"
        THEN /\ ProceedRegister(evs \o <<Ev("generate_env_file", "", o)>>,
                                "Remove .env file", "build")
             /\ env_exists' = TRUE
        ELSE \E out \in UndoOuts(rollback.actions, env_exists) :
                HandleFailure(evs \o <<Ev("generate_env_file", "", o)>>, out)

\* Faulty variant: the undo action is registered also when the user keeps
\* the existing file.
DeployEnv_registers_kept_file ==
    /\ cmd = "deploy" /\ pc = "env"
    /\ IF env_exists /\ interactive
       THEN \E response \in InputOutcomes :
              IF response = "y"
              THEN GenerateEnv(<<Ev("input", "", response)>>)
              ELSE IF response = "n"
              THEN /\ ProceedRegister(<<Ev("input", "", response)>>,
                                      "Remove .env file", "build")
                   /\ UNCHANGED env_exists
              ELSE Fail("input", response)
       ELSE GenerateEnv(<<>>)

\* Step 3: the .env file, with the overwrite prompt when it exists and the
\* run is interactive
DeployEnv ==
    /\ cmd = "deploy" /\ pc = "env"
    /\ IF env_exists /\ interactive
       THEN \E response \in InputOutcomes :
              IF response = "y"
              THEN GenerateEnv(<<Ev("input", "", response)>>)
              ELSE IF response = "n"
              THEN Proceed(<<Ev("input", "", response)>>, "build")
              ELSE Fail("input", response)
       ELSE GenerateEnv(<<>>)

\* Step 4: build_image(config, no_cache); no undo action
DeployBuild ==
    /\ cmd = "deploy" /\ pc = "build"
    /\ \E o \in DockerOutcomes :
         IF o = "ok"
         THEN Proceed(<<Ev("build_image", "", o)>>, "start")
         ELSE Fail("build_image", o)

\* Faulty variant: "Stop services" is registered before start_services is
\* attempted.
DeployStart_speculative ==
    /\ cmd = "deploy" /\ pc = "start"
    /\ \E o \in DockerOutcomes :
         LET rb == add_action(rollback, "Stop services", nextId + 1)
             evs == <<Ev("add_action", "Stop services", "ok"),
                      Ev("start_services", "", o)>>
         IN  /\ rollback' = rb
             /\ nextId' = nextId + 1
             /\ UNCHANGED <<clearedAt, everDisabled, params>>
             /\ IF o = "ok"
                THEN /\ ops' = ops \o evs
                     /\ lastOp' = "add_action"
                     /\ pc' = "health"
                     /\ UNCHANGED <<calls, outs, ret, env_exists, result>>
                ELSE /\ pc' = "done"
                     /\ IF auto_rollback
                        THEN \E out \in UndoOuts(rb.actions, env_exists) :
                               LET r == execute(rb, out)
                               IN  /\ ops' = (ops \o evs) \o ExecEvents(rb.actions, r)
                                   /\ calls' = r.calls
                                   /\ outs' = r.outs
                                   /\ ret' = r.ret
                                   /\ lastOp' = "execute"
                                   /\ env_exists' = EnvAfter(env_exists, rb.actions, r)
                                   /\ result' = IF r.ret = "KeyboardInterrupt"
                                                THEN "KeyboardInterrupt" ELSE "False"
                        ELSE /\ ops' = ops \o evs
                             /\ result' = "False"
                             /\ lastOp' = "add_action"
                             /\ UNCHANGED <<calls, outs, ret, env_exists>>

\* Step 5: start_services(config) followed by
\* rollback.add_action("Stop services", cleanup_failed_deployment, config, False)
DeployStart ==
    /\ cmd = "deploy" /\ pc = "start"
    /\ \E o \in DockerOutcomes :
         IF o = "ok"
         THEN /\ ProceedRegister(<<Ev("start_services", "", o)>>,
                                 "Stop services", "health")
              /\ UNCHANGED env_exists
         ELSE Fail("start_services", o)

\* The "if not healthy" branch of run_deploy: with auto_rollback,
\* rollback.execute() is called inside the try block, so a
\* KeyboardInterrupt out of it is caught by "except KeyboardInterrupt",
\* which calls rollback.execute() again; then "return False".
DeployUnhealthy(evs, out1, out2) ==
    IF auto_rollback
    THEN LET r == execute(rollback, out1)
             e1 == (ops \o evs) \o ExecEvents(rollback.actions, r)
             x1 == EnvAfter(env_exists, rollback.actions, r)
         IN  IF r.ret = "KeyboardInterrupt"
             THEN /\ out2 \in UndoOuts(rollback.actions, x1)
                  /\ LET r2 == execute(rollback, out2)
                     IN  /\ ops' = e1 \o ExecEvents(rollback.actions, r2)
                         /\ calls' = r2.calls
                         /\ outs' = r2.outs
                         /\ ret' = r2.ret
                         /\ env_exists' = EnvAfter(x1, rollback.actions, r2)
                         /\ result' = IF r2.ret = "KeyboardInterrupt"
                                      THEN "KeyboardInterrupt" ELSE "False"
                  /\ lastOp' = "execute"
             ELSE /\ ops' = e1
                  /\ calls' = r.calls
                  /\ outs' = r.outs
                  /\ ret' = r.ret
                  /\ lastOp' = "execute"
                  /\ env_exists' = x1
                  /\ result' = "False"
    ELSE /\ ops' = ops \o evs
         /\ result' = "False"
         /\ UNCHANGED <<calls, outs, ret, lastOp, env_exists>>

\* Step 6: wait_for_healthy unless skip_health_check, then
\* rollback.clear() and return True
DeployHealth ==
    /\ cmd = "deploy" /\ pc = "health"
    /\ IF skip_health_check
       THEN ClearAndSucceed(<<>>)
       ELSE \E h \in HealthOutcomes :
              IF h = "True"
              THEN ClearAndSucceed(<<Ev("wait_for_healthy", "", h)>>)
              ELSE IF h = "False"
              THEN /\ \E out1 \in UndoOuts(rollback.actions, env_exists),
                         out2 \in [1..Len(rollback.actions) -> Outcomes] :
                        DeployUnhealthy(<<Ev("wait_for_healthy", "", h)>>, out1, out2)
                   /\ pc' = "done"
                   /\ UNCHANGED <<rollback, nextId, clearedAt, everDisabled, params>>
              ELSE Fail("wait_for_healthy", h)

\* ---- run_update

\* "if not check_container_exists(...): return False", then the
\* RollbackManager
UpdateBegin ==
    /\ cmd = "update" /\ pc = "begin"
    /\ IF container_exists
       THEN Begin("validate")
       ELSE /\ result' = "False"
            /\ pc' = "done"
            /\ ops' = Append(ops, Ev("check_container_exists", "", "False"))
            /\ UNCHANGED <<rmVars, env_exists, params>>

\* Step 1: validate_and_report(strict=True)
UpdateValidate ==
    /\ cmd = "update" /\ pc = "validate"
    /\ \E o \in ValidateOutcomes :
         IF o = "ok"
         THEN Proceed(<<Ev("validate_and_report", "", o)>>, "stop")
         ELSE Fail("validate_and_report", o)

\* Step 2: stop_services(config, remove_volumes=False) followed by
\* rollback.add_action("Start services", start_services, config)
UpdateStop ==
    /\ cmd = "update" /\ pc = "stop"
    /\ \E o \in DockerOutcomes :
         IF o = "ok"
         THEN /\ ProceedRegister(<<Ev("stop_services", "", o)>>,
                                 "Start services", "build")
              /\ UNCHANGED env_exists
         ELSE Fail("stop_services", o)

\* Step 3: build_image(config, no_cache)
UpdateBuild ==
    /\ cmd = "update" /\ pc = "build"
    /\ \E o \in DockerOutcomes :
         IF o = "ok"
         THEN Proceed(<<Ev("build_image", "", o)>>, "start")
         ELSE Fail("build_image", o)

\* Faulty variant: the log is kept after the updated services started.
UpdateStart_no_clear ==
    /\ cmd = "update" /\ pc = "start"
    /\ \E o \in DockerOutcomes :
         IF o = "ok"
         THEN Proceed(<<Ev("start_services", "", o)>>, "health")
         ELSE Fail("start_services", o)

\* Step 4: start_services(config) followed by rollback.clear()
UpdateStart ==
    /\ cmd = "update" /\ pc = "start"
    /\ \E o \in DockerOutcomes :
         IF o = "ok"
         THEN /\ rollback' = clear(rollback)
              /\ clearedAt' = nextId
              /\ lastOp' = "clear"
              /\ ops' = ops \o <<Ev("start_services", "", o), Ev("clear", "", "ok")>>
              /\ pc' = "health"
              /\ UNCHANGED <<calls, outs, ret, nextId, everDisabled, env_exists,
                             result, params>>
         ELSE Fail("start_services", o)

\* Faulty variant: after a failed health check stop_services(config) is
\* called whether or not auto_rollback is set.
UpdateHealth_always_stops ==
    /\ cmd = "update" /\ pc = "health"
    /\ IF skip_health_check
       THEN /\ result' = "True"
            /\ pc' = "done"
            /\ UNCHANGED <<rmVars, env_exists, ops, params>>
       ELSE \E h \in HealthOutcomes :
              IF h = "True"
              THEN /\ result' = "True"
                   /\ pc' = "done"
                   /\ ops' = Append(ops, Ev("wait_for_healthy", "", h))
                   /\ UNCHANGED <<rmVars, env_exists, params>>
              ELSE IF h = "False"
              THEN \E o \in DockerOutcomes :
                     IF o = "ok"
                     THEN /\ result' = "False"
                          /\ pc' = "done"
                          /\ ops' = ops \o <<Ev("wait_for_healthy", "", h),
                                             Ev("stop_services", "", o)>>
                          /\ UNCHANGED <<rmVars, env_exists, params>>
                     ELSE \E out \in UndoOuts(rollback.actions, env_exists) :
                            HandleFailure(<<Ev("wait_for_healthy", "", h),
                                            Ev("stop_services", "", o)>>, out)
              ELSE Fail("wait_for_healthy", h)

\* Faulty variant: a failed health check goes to the failure handling
\* without stopping the services.
UpdateHealth_no_stop ==
    /\ cmd = "update" /\ pc = "health"
    /\ IF skip_health_check
       THEN /\ result' = "True"
            /\ pc' = "done"
            /\ UNCHANGED <<rmVars, env_exists, ops, params>>
       ELSE \E h \in HealthOutcomes :
              IF h = "True"
              THEN /\ result' = "True"
                   /\ pc' = "done"
                   /\ ops' = Append(ops, Ev("wait_for_healthy", "", h))
                   /\ UNCHANGED <<rmVars, env_exists, params>>
              ELSE Fail("wait_for_healthy", h)

\* The health check of run_update.  When it fails with auto_rollback,
\* stop_services(config) is called inside the try block and "return False"
\* follows; if that stop raises, the except clauses run.
UpdateHealth ==
    /\ cmd = "update" /\ pc = "health"
    /\ IF skip_health_check
       THEN /\ result' = "True"
            /\ pc' = "done"
            /\ UNCHANGED <<rmVars, env_exists, ops, params>>
       ELSE \E h \in HealthOutcomes :
              IF h = "True"
              THEN /\ result' = "True"
                   /\ pc' = "done"
                   /\ ops' = Append(ops, Ev("wait_for_healthy", "", h))
                   /\ UNCHANGED <<rmVars, env_exists, params>>
              ELSE IF h = "False"
              THEN IF auto_rollback
                   THEN \E o \in DockerOutcomes :
                          IF o = "ok"
                          THEN /\ result' = "False"
                               /\ pc' = "done"
                               /\ ops' = ops \o <<Ev("wait_for_healthy", "", h),
                                                  Ev("stop_services", "", o)>>
                               /\ UNCHANGED <<rmVars, env_exists, params>>
                          ELSE \E out \in UndoOuts(rollback.actions, env_exists) :
                                 HandleFailure(<<Ev("wait_for_healthy", "", h),
                                                 Ev("stop_services", "", o)>>, out)
                   ELSE /\ result' = "False"
                        /\ pc' = "done"
                        /\ ops' = Append(ops, Ev("wait_for_healthy", "", h))
                        /\ UNCHANGED <<rmVars, env_exists, params>>
              ELSE Fail("wait_for_healthy", h)

NextWF ==
    \/ DeployBegin
    \/ DeployValidate
    \/ DeployCreateDirectories
    \/ DeployEnv
    \/ DeployBuild
    \/ DeployStart
    \/ DeployHealth
    \/ UpdateBegin
    \/ UpdateValidate
    \/ UpdateStop
    \/ UpdateBuild
    \/ UpdateStart
    \/ UpdateHealth

SpecWF == InitWF /\ [][NextWF]_vars

\* ------------------------- SpecCleanup: the cleanup command, run_cleanup

\* What the user can type at the prompt, and input(...).strip().lower().
Answers == {"y", "Y", " y", "n", "", "yes"}

StripLower(response) == IF response \in {"y", "Y", " y"} THEN "y" ELSE response

\* What run_cleanup never changes.
clFrame == <<rmVars, auxVars, fnVars, cmd, auto_rollback, skip_health_check,
             interactive, port_in_use, prereqs_ok, remove_all>>

clFlags == <<remove_volumes, remove_image, remove_config>>

\* The deployment: what cleanup can remove.
deployment == <<container_exists, volume_exists, image_exists, env_exists>>

InitCleanup ==
    /\ FreshManager
    /\ NoCall
    /\ cmd = "cleanup"
    /\ pc = "cli"
    /\ auto_rollback = TRUE
    /\ skip_health_check = FALSE
    /\ port_in_use = FALSE
    /\ prereqs_ok = TRUE
    /\ ops = <<>>
    /\ result = "none"
    /\ interactive \in BOOLEAN
    /\ remove_volumes \in BOOLEAN
    /\ remove_image \in BOOLEAN
    /\ remove_config \in BOOLEAN
    /\ remove_all \in BOOLEAN
    /\ container_exists \in BOOLEAN
    /\ volume_exists \in BOOLEAN
    /\ image_exists \in BOOLEAN
    /\ env_exists \in BOOLEAN

\* The cleanup command (cli.py:183-210): "if remove_all: volumes = True;
\* image = True; remove_config = True", then run_cleanup.
CleanupCommand ==
    /\ cmd = "cleanup" /\ pc = "cli"
    /\ remove_volumes' = (remove_volumes \/ remove_all)
    /\ remove_image' = (remove_image \/ remove_all)
    /\ remove_config' = (remove_config \/ remove_all)
    /\ pc' = "begin"
    /\ UNCHANGED <<clFrame, deployment, ops, result>>

\* "if not check_container_exists(...): return True", then the
\* confirmation when interactive.
CleanupBegin ==
    /\ cmd = "cleanup" /\ pc = "begin"
    /\ IF ~container_exists
       THEN /\ result' = "True"
            /\ pc' = "done"
            /\ ops' = Append(ops, Ev("check_container_exists", "", "False"))
       ELSE /\ pc' = IF interactive THEN "confirm" ELSE "stop"
            /\ UNCHANGED <<ops, result>>
    /\ UNCHANGED <<clFrame, clFlags, deployment>>

\* Faulty variant: an empty answer counts as consent.
CleanupConfirm_default_yes ==
    /\ cmd = "cleanup" /\ pc = "confirm"
    /\ \E response \in Answers \cup {"EOFError", "KeyboardInterrupt"} :
         /\ ops' = Append(ops, Ev("input", "", response))
         /\ IF response \notin Answers
            THEN result' = response /\ pc' = "done"
            ELSE IF StripLower(response) \in {"y", ""}
            THEN pc' = "stop" /\ UNCHANGED result
            ELSE result' = "False" /\ pc' = "done"
    /\ UNCHANGED <<clFrame, clFlags, deployment>>

\* "response = input(...).strip().lower(); if response != 'y': return
\* False" (cleanup.py:77-81).  The prompt is outside the try block: what
\* input() raises leaves run_cleanup.
CleanupConfirm ==
    /\ cmd = "cleanup" /\ pc = "confirm"
    /\ \E response \in Answers \cup {"EOFError", "KeyboardInterrupt"} :
         /\ ops' = Append(ops, Ev("input", "", response))
         /\ IF response \notin Answers
            THEN result' = response /\ pc' = "done"
            ELSE IF StripLower(response) = "y"
            THEN pc' = "stop" /\ UNCHANGED result
            ELSE result' = "False" /\ pc' = "done"
    /\ UNCHANGED <<clFrame, clFlags, deployment>>

\* A step of the try block ended with o: on "ok" go on to next (or return
\* True after the last step); an Exception is caught and False returned
\* (cleanup.py:132-134); a KeyboardInterrupt leaves run_cleanup.
CleanupStep(op, arg, o, next) ==
    /\ ops' = Append(ops, Ev(op, arg, o))
    /\ pc' = IF o = "ok" THEN next ELSE "done"
    /\ result' = IF o = "KeyboardInterrupt" THEN "KeyboardInterrupt"
                 ELSE IF o # "ok" THEN "False"
                 ELSE IF next = "done" THEN "True"
                 ELSE result

\* A step that is skipped.
CleanupSkip(next) ==
    /\ pc' = next
    /\ result' = IF next = "done" THEN "True" ELSE result
    /\ UNCHANGED <<ops, deployment>>

\* Faulty variant: the services are always stopped with "down -v".
CleanupStop_always_v ==
    /\ cmd = "cleanup" /\ pc = "stop"
    /\ \E o \in DockerOutcomes :
         /\ CleanupStep("stop_services", "-v", o, "container")
         /\ IF o = "ok"
            THEN /\ container_exists' \in {FALSE, container_exists}
                 /\ volume_exists' = FALSE
            ELSE UNCHANGED <<container_exists, volume_exists>>
    /\ UNCHANGED <<clFrame, clFlags, image_exists, env_exists>>

\* stop_services(config, remove_volumes=remove_volumes): "docker compose
\* down", with "-v" when remove_volumes (docker_utils.py:196-219).
CleanupStop ==
    /\ cmd = "cleanup" /\ pc = "stop"
    /\ \E o \in DockerOutcomes :
         /\ CleanupStep("stop_services", IF remove_volumes THEN "-v" ELSE "", o,
                        "container")
         /\ IF o = "ok"
            THEN /\ container_exists' \in {FALSE, container_exists}
                 /\ volume_exists' = (volume_exists /\ ~remove_volumes)
            ELSE UNCHANGED <<container_exists, volume_exists>>
    /\ UNCHANGED <<clFrame, clFlags, image_exists, env_exists>>

\* remove_container(config.container_name, force=True)
\* (docker_utils.py:363-376)
CleanupContainer ==
    /\ cmd = "cleanup" /\ pc = "container"
    /\ \E o \in DockerOutcomes :
         /\ CleanupStep("remove_container", "", o, "volume")
         /\ container_exists' = (container_exists /\ o # "ok")
    /\ UNCHANGED <<clFrame, clFlags, volume_exists, image_exists, env_exists>>

\* "if remove_volumes: remove_volume(config.home_volume, force=True)";
\* a volume that cannot be removed is a warning (docker_utils.py:395-408).
CleanupVolume ==
    /\ cmd = "cleanup" /\ pc = "volume"
    /\ IF remove_volumes
       THEN \E o \in DockerOutcomes :
              /\ CleanupStep("remove_volume", "", o, "image")
              /\ IF o = "ok"
                 THEN volume_exists' \in {FALSE, volume_exists}
                 ELSE UNCHANGED volume_exists
              /\ UNCHANGED <<container_exists, image_exists, env_exists>>
       ELSE CleanupSkip("image")
    /\ UNCHANGED <<clFrame, clFlags>>

\* "if remove_image: remove_image(config.image_name, force=True)"
\* (docker_utils.py:379-392)
CleanupImage ==
    /\ cmd = "cleanup" /\ pc = "image"
    /\ IF remove_image
       THEN \E o \in DockerOutcomes :
              /\ CleanupStep("remove_image", "", o, "config")
              /\ IF o = "ok"
                 THEN image_exists' \in {FALSE, image_exists}
                 ELSE UNCHANGED image_exists
              /\ UNCHANGED <<container_exists, volume_exists, env_exists>>
       ELSE CleanupSkip("config")
    /\ UNCHANGED <<clFrame, clFlags>>

\* "if remove_config: if env_file.exists(): env_file.unlink()", then
\* "return True"
CleanupConfig ==
    /\ cmd = "cleanup" /\ pc = "config"
    /\ IF remove_config /\ env_exists
       THEN \E o \in FileOutcomes :
              /\ CleanupStep("unlink", "", o, "done")
              /\ env_exists' = (o # "ok")
              /\ UNCHANGED <<container_exists, volume_exists, image_exists>>
       ELSE CleanupSkip("done")
    /\ UNCHANGED <<clFrame, clFlags>>

NextCleanup ==
    \/ CleanupCommand
    \/ CleanupBegin
    \/ CleanupConfirm
    \/ CleanupStop
    \/ CleanupContainer
    \/ CleanupVolume
    \/ CleanupImage
    \/ CleanupConfig

SpecCleanup == InitCleanup /\ [][NextCleanup]_vars

\* ------------------------- SpecUndo: cleanup_failed_deployment as undo

\* The operations cleanup_failed_deployment attempts, in order
\* (rollback.py:117-138).
cfd_steps(remove_vols) ==
    <<"stop_services", "remove_container">> \o
    (IF remove_vols THEN <<"remove_volume">> ELSE <<>>)

\* Faulty variant: the steps are not wrapped in try/except, so the first
\* error ends the cleanup and is raised.
RECURSIVE cfd_run_unguarded(_, _, _, _)
cfd_run_unguarded(steps, souts, i, trace) ==
    IF i > Len(steps) THEN [trace |-> trace, raised |-> "none"]
    ELSE LET t == Append(trace, Ev(steps[i], "", souts[i]))
         IN  IF souts[i] # "ok"
             THEN [trace |-> t, raised |-> souts[i]]
             ELSE cfd_run_unguarded(steps, souts, i + 1, t)

\* Each step is in its own "try: ... except Exception: logger.warning":
\* an Exception is logged and the next step follows; a KeyboardInterrupt
\* is not caught and leaves the function.
RECURSIVE cfd_run(_, _, _, _)
cfd_run(steps, souts, i, trace) ==
    IF i > Len(steps) THEN [trace |-> trace, raised |-> "none"]
    ELSE LET t == Append(trace, Ev(steps[i], "", souts[i]))
         IN  IF souts[i] = "KeyboardInterrupt"
             THEN [trace |-> t, raised |-> souts[i]]
             ELSE cfd_run(steps, souts, i + 1, t)

\* Faulty variant of cleanup_failed_deployment, see cfd_run_unguarded.
cleanup_failed_deployment_unguarded(c) ==
    cfd_run_unguarded(cfd_steps(c.remove_volumes), c.souts, 1, <<>>)

\* cleanup_failed_deployment(config, remove_volumes) (rollback.py:107-142)
cleanup_failed_deployment(c) ==
    cfd_run(cfd_steps(c.remove_volumes), c.souts, 1, <<>>)

\* How an undo action that ended with raised looks to execute().
UndoOutcome(raised) ==
    IF raised = "none" THEN "ok"
    ELSE IF raised = "KeyboardInterrupt" THEN "interrupt"
    ELSE "raise"

\* The log of a run_deploy whose services have started (deploy.py:140).
StartedLog == add_action(RollbackManager, "Stop services", 1)

InitUndo ==
    /\ FreshManager
    /\ NoWorkflow
    /\ NoCleanup
    /\ call \in [fn : {"cleanup_failed_deployment"}, remove_volumes : BOOLEAN,
                  souts : [1..Len(cfd_steps(TRUE)) -> DockerOutcomes]]
    /\ outcome = [kind |-> "none"]

\* execute() invokes the registered cleanup_failed_deployment.
ExecuteCleanup ==
    /\ call.fn = "cleanup_failed_deployment" /\ outcome.kind = "none"
    /\ LET r == cleanup_failed_deployment(call)
           x == execute(StartedLog, [j \in 1..Len(StartedLog.actions) |-> UndoOutcome(r.raised)])
       IN  outcome' = [kind |-> "cleaned", trace |-> r.trace, raised |-> r.raised,
                       undo |-> UndoOutcome(r.raised), ret |-> x.ret]
    /\ UNCHANGED <<rmVars, wfVars, auxVars, clVars, call>>

NextUndo == ExecuteCleanup

SpecUndo == InitUndo /\ [][NextUndo]_vars

\* ------------------------------------------------ claims on SpecRM

\* The state right after an execute() call on the manager.
AfterExecute == lastOp = "execute"

\* That execute() returned to its caller.
Returned == ret \in {"True", "False"}

\* No KeyboardInterrupt was delivered during that execute().
NoInterrupt == \A j \in 1..Len(outs) : outs[j] # "interrupt"

\* C1: execute() on an enabled manager invokes the registered actions in
\* exactly the reverse of their registration order: the log holds them in
\* registration order (increasing id), what has been invoked so far is
\* always an initial part of the reversed log, and when execute() returns
\* it is the whole reversed log, last registered first.
C1_ReverseOrder ==
    (AfterExecute /\ rollback.enabled) =>
        /\ \A i, j \in 1..Len(rollback.actions) :
               i < j => rollback.actions[i].id < rollback.actions[j].id
        /\ IsPrefix(calls, Reverse(Ids(rollback.actions)))
        /\ Returned => calls = Reverse(Ids(rollback.actions))

C1_Witness ==
    /\ AfterExecute /\ rollback.enabled /\ Returned
    /\ Len(rollback.actions) = 3
    /\ calls = <<3, 2, 1>>

\* C2: in one execute() on an enabled, non-empty log no registered action
\* is invoked twice, and when the actions return or raise (no
\* KeyboardInterrupt is delivered) every registered action is invoked
\* exactly once, whichever of them raise.
C2_AllInvokedOnce ==
    (AfterExecute /\ rollback.enabled /\ rollback.actions # <<>>) =>
        /\ \A i \in 1..Len(rollback.actions) :
               Count(calls, rollback.actions[i].id) <= 1
        /\ NoInterrupt =>
               /\ Len(calls) = Len(rollback.actions)
               /\ \A i \in 1..Len(rollback.actions) :
                      Count(calls, rollback.actions[i].id) = 1

\* Scenario B: three actions, the second registered raises.
C2_Witness ==
    /\ AfterExecute /\ rollback.enabled
    /\ Len(rollback.actions) = 3
    /\ outs = <<"ok", "raise", "ok">>
    /\ ret = "False"

\* C3: when execute() on an enabled manager returns, it returns True if
\* and only if none of the actions it invoked raised.
C3_TrueIffNoneRaised ==
    (AfterExecute /\ rollback.enabled /\ Returned) =>
        (ret = "True" <=> \A j \in 1..Len(outs) : outs[j] # "raise")

\* The first action invoked raises, the later ones succeed.
C3_Witness ==
    /\ AfterExecute /\ rollback.enabled
    /\ outs = <<"raise", "ok", "ok">>
    /\ ret = "False"

\* C4: execute() always returns a boolean to its caller, whatever failure
\* an undo action raises, an interrupt delivered during the action
\* included.
C4_NoThrow == AfterExecute => Returned

\* C5: once disable() has been called, execute() invokes nothing and
\* returns True, whatever the log contains.
C5_DisabledNoOp ==
    (AfterExecute /\ everDisabled) => (calls = <<>> /\ ret = "True")

\* Scenario C: disable(), then two registrations, then execute().
C5_Witness ==
    /\ AfterExecute /\ everDisabled
    /\ Len(rollback.actions) = 2

\* C6: execute() on an empty log invokes nothing and returns True.
C6_EmptyNoOp ==
    (AfterExecute /\ rollback.actions = <<>>) => (calls = <<>> /\ ret = "True")

C6_Witness ==
    AfterExecute /\ rollback.enabled /\ rollback.actions = <<>> /\ nextId = 0

\* C7: after clear() the manager behaves like a fresh one with the same
\* enabled flag: execute() invokes only actions registered after the
\* latest clear(); with none registered since, it invokes nothing and
\* returns True; and when it returns on an enabled manager it has invoked
\* every action registered since the clear, once each.
C7_ClearIsFresh ==
    AfterExecute =>
        /\ \A j \in 1..Len(calls) : calls[j] > clearedAt
        /\ nextId = clearedAt => (calls = <<>> /\ ret = "True")
        /\ (rollback.enabled /\ Returned) =>
               calls = [i \in 1..(nextId - clearedAt) |-> nextId + 1 - i]

\* Actions registered, clear(), one more registered, execute().
C7_Witness ==
    /\ AfterExecute /\ rollback.enabled /\ Returned
    /\ clearedAt = 2 /\ nextId = 3
    /\ calls = <<3>>

\* C14: add_action only does bookkeeping: the step appends exactly one
\* action, the one being registered, at the end of the log, leaves the
\* earlier entries and the enabled flag as they were, and invokes nothing
\* (the record of invocations does not change).
C14_AddActionBookkeeping ==
    [][nextId' = nextId + 1 =>
          /\ Len(rollback'.actions) = Len(rollback.actions) + 1
          /\ SubSeq(rollback'.actions, 1, Len(rollback.actions)) = rollback.actions
          /\ rollback'.actions[Len(rollback'.actions)].id = nextId'
          /\ rollback'.enabled = rollback.enabled
          /\ calls' = calls /\ outs' = outs /\ ret' = ret]_vars

\* A third action registered on a disabled manager after an execute()
\* that unwound the first two.
C14_Witness ==
    /\ lastOp = "add_action"
    /\ Len(rollback.actions) = 3
    /\ ~rollback.enabled
    /\ calls = <<2, 1>>

\* C15: execute() never modifies the log or the enabled flag, whichever
\* of its branches (disabled, empty, unwinding) it takes.
C15_ExecuteFrame ==
    [][lastOp' = "execute" => rollback' = rollback]_vars

\* After an unwind of three actions the three are still recorded.
C15_Witness ==
    /\ AfterExecute /\ rollback.enabled
    /\ Len(calls) = 3
    /\ Len(rollback.actions) = 3

\* C16: enabled starts true; disable() leaves the log unchanged; and once
\* enabled is false it stays false through every later add_action, clear,
\* disable and execute.
C16_DisableIrreversible ==
    /\ rollback.enabled
    /\ [][/\ ~rollback.enabled => ~rollback'.enabled
          /\ lastOp' = "disable" =>
                (~rollback'.enabled /\ rollback'.actions = rollback.actions)]_vars

\* disable(), then clear(), two registrations and an execute().
C16_Witness ==
    /\ ~rollback.enabled /\ AfterExecute
    /\ clearedAt = 1 /\ nextId = 3
    /\ Len(rollback.actions) = 2

\* C22: add_action, clear and disable complete without raising in every
\* state of the manager (enabled or disabled, empty or non-empty log,
\* before or after execute()), however often they have been called: each
\* has a successor state from every reachable state (add_action within
\* the number of registrations explored).
C22_NoUsageError ==
    /\ ENABLED Disable
    /\ ENABLED Clear
    /\ nextId < MaxReg => ENABLED AddAction
    /\ rollback.enabled \in BOOLEAN

\* add_action has completed on a disabled manager that has already
\* unwound, after an earlier disable() and clear().
C22_Witness ==
    /\ lastOp = "add_action"
    /\ ~rollback.enabled
    /\ ret # "none"
    /\ clearedAt > 0
    /\ Len(rollback.actions) >= 1

\* C18: an undo action acts on the arguments as they were when add_action
\* registered it, even if the caller changed the shared config object
\* between the registration and the unwind.
C18_BoundAtRegistration ==
    AfterExecute =>
        \A j \in 1..Len(calls) : usedCfg[j] = boundCfg[calls[j]]

\* ------------------------------------------------ claims on SpecTwo

OpsA == {"add_action", "disable", "clear", "execute"}
OpsB == {"add_action2", "disable2", "clear2", "execute2"}

\* C19: two RollbackManager instances share nothing: an operation on one
\* leaves the other's log and enabled flag as they were, and execute() on
\* one invokes only actions that were registered on it.
C19_Independent ==
    [][/\ lastOp' \in OpsA => rollback2' = rollback2
       /\ lastOp' \in OpsB => rollback' = rollback
       /\ lastOp' = "execute" => \A j \in 1..Len(calls') : calls'[j] \notin regB'
       /\ lastOp' = "execute2" => \A j \in 1..Len(calls') : calls'[j] \in regB']_vars

\* Both managers hold actions, one has been disabled or cleared since, and
\* the other has unwound its own log.
C19_Witness ==
    /\ lastOp = "execute2"
    /\ Len(calls) >= 1
    /\ Len(rollback.actions) >= 1
    /\ ~rollback.enabled

\* ------------------------------------------------ claims on SpecWF

\* Number of execute() calls the invocation has made.
ExecCount == Cardinality({k \in 1..Len(ops) : ops[k].op = "execute"})

\* The invocation has ended.
Ended == pc = "done"

\* The workflow was entered (the RollbackManager exists).
Entered == ~\E k \in 1..Len(ops) : ops[k].op = "check_container_exists"

\* What a forward step or the prompt can raise.
Raised == {"ValidationError", "DockerError", "Exception", "KeyboardInterrupt"}

\* The steps that create or change state outside the process.
ForwardSteps == {"create_directories", "generate_env_file", "build_image",
                 "start_services", "stop_services"}

\* The health check observed an unhealthy deployment.
HealthFalse == \E k \in 1..Len(ops) : ops[k] = Ev("wait_for_healthy", "", "False")

\* The forward step an undo action reverses.
StepOf(name) ==
    IF name = "Remove .env file" THEN "generate_env_file"
    ELSE IF name = "Stop services" THEN "start_services"
    ELSE "stop_services"

C9_RegisterAfterSuccess ==
    /\ \A k \in 1..Len(ops) :
          ops[k].op = "add_action" =>
              k > 1 /\ ops[k - 1] = Ev(StepOf(ops[k].arg), "", "ok")
    /\ \A i \in 1..Len(rollback.actions) :
          \E k \in 1..Len(ops) :
              ops[k] = Ev("add_action", rollback.actions[i].name, "ok")
    /\ \A k \in 1..Len(ops) :
          (ops[k].op \in ForwardSteps /\ ops[k].res \in Raised) =>
              \A i \in 1..Len(rollback.actions) :
                  StepOf(rollback.actions[i].name) # ops[k].op

\* start_services raised in run_deploy: the log holds "Remove .env file"
\* only.
C9_Witness ==
    /\ cmd = "deploy" /\ Ended
    /\ \E k \in 1..Len(ops) : ops[k] = Ev("start_services", "", "DockerError")
    /\ Len(rollback.actions) = 1
    /\ rollback.actions[1].name = "Remove .env file"

\* C10: when the workflow returns True, the log is empty, no undo action
\* was invoked and execute() was not called during the invocation, and
\* clear() was called after the last state-changing forward step and
\* after every add_action.
C10_SuccessClearsLog ==
    (Ended /\ Entered /\ result = "True") =>
        /\ rollback.actions = <<>>
        /\ \A k \in 1..Len(ops) : ops[k].op \notin {"undo", "execute"}
        /\ \E c \in 1..Len(ops) :
              /\ ops[c].op = "clear"
              /\ \A k \in 1..Len(ops) :
                    ops[k].op \in ForwardSteps \cup {"add_action"} => k < c

\* run_deploy succeeded after registering both undo actions.
C10_Witness ==
    /\ Ended /\ cmd = "deploy" /\ result = "True"
    /\ nextId = 2 /\ clearedAt = 2

\* A forward step, the prompt or the health check raised.
StepRaised ==
    \E k \in 1..Len(ops) :
        ops[k].op \notin {"execute", "undo"} /\ ops[k].res \in Raised

\* A KeyboardInterrupt was delivered during a step of the try block.
StepInterrupted ==
    \E k \in 1..Len(ops) :
        ops[k].op \notin {"execute", "undo"} /\ ops[k].res = "KeyboardInterrupt"

\* C11: the workflow returns False whenever a forward step failed, the
\* health check failed or the run was interrupted, whatever the rollback
\* did.
C11_ReturnsFalseOnFailure ==
    (Ended /\ Entered /\ (StepRaised \/ HealthFalse)) => result = "False"

\* C12: a KeyboardInterrupt delivered during a step of the try block is
\* caught and handled like any other failure: with auto_rollback,
\* execute() is the next call and the only execute() call, it unwinds the
\* actions recorded so far in reverse, and without auto_rollback it is
\* not called; unless a further KeyboardInterrupt arrives during that
\* unwinding, the function returns False.
C12_InterruptHandled ==
    (Ended /\ StepInterrupted) =>
        /\ auto_rollback =>
              /\ ExecCount = 1
              /\ \A k \in 1..Len(ops) :
                    (ops[k].op \notin {"execute", "undo"}
                        /\ ops[k].res = "KeyboardInterrupt") =>
                    (k < Len(ops) /\ ops[k + 1].op = "execute")
              /\ IsPrefix(calls, Reverse(Ids(rollback.actions)))
              /\ NoInterrupt => calls = Reverse(Ids(rollback.actions))
        /\ ~auto_rollback => ExecCount = 0
        /\ NoInterrupt => result = "False"

\* run_deploy interrupted during the health check, both undo actions
\* registered and unwound.
C12_Witness ==
    /\ Ended /\ cmd = "deploy" /\ auto_rollback
    /\ \E k \in 1..Len(ops) : ops[k] = Ev("wait_for_healthy", "", "KeyboardInterrupt")
    /\ calls = <<2, 1>> /\ outs = <<"ok", "ok">>
    /\ result = "False"

\* C13: once execute() has been called, neither add_action nor clear is
\* called again during that invocation.
C13_NothingAfterExecute ==
    \A k \in 1..Len(ops) :
        ops[k].op = "execute" =>
            \A j \in (k + 1)..Len(ops) : ops[j].op \notin {"add_action", "clear"}

\* run_update failed after stopping the services; "Start services" was
\* unwound.
C13_Witness ==
    /\ Ended /\ cmd = "update"
    /\ ExecCount = 1
    /\ calls = <<1>>
    /\ Len(rollback.actions) = 1

\* The names in a log, in log order.
Names(acts) == [i \in 1..Len(acts) |-> acts[i].name]

\* C17: in every reachable state the log is in the order in which the
\* forward steps were performed: in run_deploy it is a subsequence of
\* <<"Remove .env file", "Stop services">>, in run_update it is empty or
\* <<"Start services">>, and for two entries of the log the step reversed
\* by the earlier one succeeded before the step reversed by the later one.
C17_LogOrder ==
    /\ cmd = "deploy" =>
          Names(rollback.actions) \in
              {<<>>, <<"Remove .env file">>, <<"Stop services">>,
               <<"Remove .env file", "Stop services">>}
    /\ cmd = "update" => Names(rollback.actions) \in {<<>>, <<"Start services">>}
    /\ \A i, j \in 1..Len(rollback.actions) :
          i < j =>
              \E ki, kj \in 1..Len(ops) :
                  /\ ki < kj
                  /\ ops[ki] = Ev(StepOf(rollback.actions[i].name), "", "ok")
                  /\ ops[kj] = Ev(StepOf(rollback.actions[j].name), "", "ok")

\* run_deploy after step 5: both undo actions are in the log.
C17_Witness ==
    /\ cmd = "deploy" /\ pc = "health"
    /\ Names(rollback.actions) = <<"Remove .env file", "Stop services">>

\* C20: with auto_rollback false no undo action is invoked and no
\* compensating stop_services follows a failed health check; a failed
\* invocation ends with the call that failed, and a .env file written by
\* step 3 is still there.
C20_DisabledLeavesState ==
    ~auto_rollback =>
        /\ \A k \in 1..Len(ops) : ops[k].op # "undo"
        /\ \A k \in 1..Len(ops) :
              ops[k].op = "stop_services" =>
                  \A j \in 1..(k - 1) : ops[j].op # "wait_for_healthy"
        /\ (Ended /\ Entered /\ result # "True") =>
              /\ ops[Len(ops)].op \notin {"execute", "undo"}
              /\ ops[Len(ops)].res \in Raised \cup {"False"}
        /\ (\E k \in 1..Len(ops) : ops[k] = Ev("generate_env_file", "", "ok"))
              => env_exists

\* run_update with --no-rollback after a failed health check.
C20_Witness ==
    /\ ~auto_rollback /\ Ended /\ cmd = "update"
    /\ HealthFalse
    /\ result = "False"

\* run_update has stopped the services that were running (step 2).
ServicesStopped ==
    \E k \in 1..Len(ops) : ops[k] = Ev("stop_services", "", "ok")

\* start_services was invoked as a rollback step.
RestartAttempted ==
    \E k \in 1..Len(ops) : ops[k].op = "undo" /\ ops[k].arg = "Start services"

\* C21: whenever run_update with auto_rollback reports failure after it
\* has stopped the current services, start_services has been invoked as a
\* rollback step before it returns.
C21_RestartOnFailure ==
    (cmd = "update" /\ auto_rollback /\ Ended /\ result = "False" /\ ServicesStopped)
        => RestartAttempted

\* The forward steps of run_deploy, in the order of its try block.
DeploySteps == <<"validate_and_report", "create_directories", "generate_env_file",
                 "build_image", "start_services", "wait_for_healthy">>

Rank(op) == CHOOSE n \in 1..Len(DeploySteps) : DeploySteps[n] = op

IsDeployStep(e) == \E n \in 1..Len(DeploySteps) : DeploySteps[n] = e.op

\* C23: run_deploy attempts its forward steps in the order validate,
\* create directories, write .env, build image, start services, health
\* check, and attempts a step only when nothing before it failed and every
\* earlier step completed (the .env step also completes when the user
\* keeps the existing file).
C23_DeployOrder ==
    cmd = "deploy" =>
        \A k \in 1..Len(ops) : IsDeployStep(ops[k]) =>
            /\ \A j \in 1..(k - 1) :
                  /\ ops[j].res \notin Raised
                  /\ ops[j].op \notin {"execute", "undo"}
                  /\ IsDeployStep(ops[j]) => Rank(ops[j].op) < Rank(ops[k].op)
            /\ \A n \in 1..(Rank(ops[k].op) - 1) :
                  \/ \E j \in 1..(k - 1) : ops[j] = Ev(DeploySteps[n], "", "ok")
                  \/ /\ DeploySteps[n] = "generate_env_file"
                     /\ \E j \in 1..(k - 1) : ops[j] = Ev("input", "", "n")

\* A deployment that went through all six steps.
C23_Witness ==
    /\ cmd = "deploy" /\ Ended
    /\ \E k \in 1..Len(ops) : ops[k].op = "wait_for_healthy"
    /\ \E k \in 1..Len(ops) : ops[k].op = "generate_env_file"

\* C30: run_update's validation does not reject the gateway port merely
\* because the deployment about to be updated is listening on it: with
\* the other prerequisites met, step 1 of an update of a running
\* deployment does not raise ValidationError, so the stop, rebuild and
\* restart steps can be reached.
C30_UpdateOfRunningDeployment ==
    (cmd = "update" /\ container_exists /\ port_in_use /\ prereqs_ok) =>
        \A k \in 1..Len(ops) :
            ops[k].op = "validate_and_report" => ops[k].res # "ValidationError"

\* Number of times the undo action called name has been invoked.
UndoCount(name) ==
    Cardinality({k \in 1..Len(ops) : ops[k].op = "undo" /\ ops[k].arg = name})

\* C29: within one run_deploy invocation each registered undo action is
\* invoked at most once on every path (run_deploy registers each name at
\* most once).
C29_UndoAtMostOnce ==
    cmd = "deploy" => \A name \in ActionNames : UndoCount(name) <= 1

\* ------------------------------------------------ claims on SpecCmd

Called == outcome.kind # "none"

\* The command ran and exited with a non-zero status, timed out, or could
\* not be launched.
CommandFailed ==
    \/ call.proc = "exit" /\ call.returncode # 0
    \/ call.proc \in {"TimeoutExpired", "OSError"}

\* C24: with check=True run_command returns normally only when the
\* command exited with status 0; a non-zero exit, a timeout or an error
\* while launching is raised as DockerError, and nothing but DockerError
\* is raised for an error; with check=False an exit status, zero or not,
\* comes back in the result.
C24_RunCommand ==
    Called =>
        /\ (call.check /\ outcome.kind = "return") =>
               (call.proc = "exit" /\ call.returncode = 0)
        /\ (CommandFailed /\ (call.check \/ call.proc # "exit")) =>
               (outcome.kind = "raise" /\ outcome.exc = "DockerError")
        /\ (outcome.kind = "raise" /\ call.proc # "KeyboardInterrupt") =>
               outcome.exc = "DockerError"
        /\ (~call.check /\ call.cmd_is_strs /\ call.proc = "exit") =>
               (outcome.kind = "return" /\ outcome.returncode = call.returncode)

\* The program of a checked call could not be launched, and DockerError
\* was raised.
C24_Witness ==
    /\ Called
    /\ call.check /\ call.cmd_is_strs /\ call.proc = "OSError"
    /\ outcome.exc = "DockerError"

\* ------------------------------------------------ claims on SpecCleanup

\* The operations of run_cleanup that stop or remove something.
Destructive == {"stop_services", "remove_container", "remove_volume",
                "remove_image", "unlink"}

\* The user answered 'y' at the prompt (up to case and blanks).
Confirmed ==
    \E j \in 1..Len(ops) :
        ops[j].op = "input" /\ ops[j].res \in Answers /\ StripLower(ops[j].res) = "y"

\* The user gave another answer.
Refused ==
    \E j \in 1..Len(ops) :
        ops[j].op = "input" /\ ops[j].res \in Answers /\ StripLower(ops[j].res) # "y"

\* C25: in interactive mode run_cleanup performs no destructive operation
\* and removes nothing unless the user answered 'y' to the prompt; on any
\* other answer it returns False and the deployment stays as it was.
C25_ConfirmBeforeCleanup ==
    /\ [](interactive =>
            /\ \A k \in 1..Len(ops) : ops[k].op \in Destructive => Confirmed
            /\ Refused => (Ended /\ result = "False" /\ container_exists))
    /\ [][(interactive /\ deployment' # deployment) => Confirmed]_vars

\* An interactive cleanup that the user confirmed and that removed the
\* container.
C25_Witness ==
    /\ cmd = "cleanup" /\ interactive /\ Confirmed
    /\ Ended /\ result = "True"
    /\ ~container_exists

\* C26: the volume is removed only if remove_volumes is set, the image
\* only if remove_image is set, the .env file only if remove_config is
\* set; the cleanup command passes its options on as given, except that
\* --all sets all three.
C26_RemoveOnlyWhatWasAsked ==
    [][/\ (volume_exists /\ ~volume_exists') => remove_volumes
       /\ (image_exists /\ ~image_exists') => remove_image
       /\ (env_exists /\ ~env_exists') => remove_config
       /\ (pc = "cli" /\ pc' # "cli") =>
             /\ remove_all => (remove_volumes' /\ remove_image' /\ remove_config')
             /\ ~remove_all => clFlags' = clFlags
       /\ pc # "cli" => clFlags' = clFlags]_vars

\* A cleanup asked to remove the volume only: the volume is gone, the
\* image and the .env file are still there.
C26_Witness ==
    /\ cmd = "cleanup" /\ Ended /\ result = "True"
    /\ remove_volumes /\ ~remove_image /\ ~remove_config
    /\ ~volume_exists /\ image_exists /\ env_exists
    /\ \E k \in 1..Len(ops) : ops[k].op = "remove_volume"

\* ------------------------------------------------ claims on SpecEnv

\* C27: save_env_file followed by from_env_file is a round trip on the
\* fields of env_map: a field that had a non-empty value is read back with
\* that value, and a field that was unset comes back as its default.
C27_EnvRoundTrip ==
    outcome.kind = "loaded" =>
        \A i \in 1..Len(EnvFields) :
            LET f == EnvFields[i]
            IN  outcome.config[f] = IF Truthy(call.config[f])
                                    THEN call.config[f]
                                    ELSE DeploymentConfig[f]

\* ------------------------------------------------ claims on SpecLoad

YamlUsed == call.config_file /\ call.yaml_exists

EnvUsed == ~YamlUsed /\ call.env_file /\ call.env_exists

\* The override given for attribute f counts: it is there and not None.
Overridden(f) == f \in DOMAIN call.overrides /\ call.overrides[f] # None

\* C28: load_config takes its base from exactly one source, an existing
\* YAML file, else an existing .env file, else the defaults; an override
\* that is not None and names a config attribute wins over the base, an
\* override of None changes nothing, and one that names no attribute is
\* ignored.
C28_LoadConfig ==
    outcome.kind = "config" =>
        /\ DOMAIN outcome.config = Attrs
        /\ \A f \in Attrs :
              /\ Overridden(f) => outcome.config[f] = call.overrides[f]
              /\ (~Overridden(f) /\ YamlUsed) => outcome.config[f] = call.yaml[f]
              /\ (~Overridden(f) /\ EnvUsed) => outcome.config[f] = call.env[f]
              /\ (~Overridden(f) /\ ~YamlUsed /\ ~EnvUsed) =>
                    outcome.config[f] = Defaults[f]

\* Both files exist and disagree on the token, the port is overridden and
\* the token override is None: the token is the YAML file's.
C28_Witness ==
    /\ outcome.kind = "config"
    /\ YamlUsed /\ call.env_file /\ call.env_exists
    /\ call.yaml["gateway_token"] # call.env["gateway_token"]
    /\ Overridden("gateway_port")
    /\ "gateway_token" \in DOMAIN call.overrides /\ ~Overridden("gateway_token")
    /\ "bogus" \in DOMAIN call.overrides
    /\ outcome.config["gateway_token"] = call.yaml["gateway_token"]

\* ------------------------------------ claims on SpecWF, run_update

\* Position of the failed health check in the trace (0 when none).
HealthFalseAt ==
    IF HealthFalse
    THEN CHOOSE k \in 1..Len(ops) : ops[k] = Ev("wait_for_healthy", "", "False")
    ELSE 0

NotInterrupted ==
    \A i \in 1..Len(cfd_steps(call.remove_volumes)) :
        call.souts[i] # "KeyboardInterrupt"

\* C33: cleanup_failed_deployment attempts stop_services, then
\* remove_container, then remove_volume only when remove_volumes is set,
\* each whether or not the earlier ones failed; it never raises an
\* ordinary error, so a failure to stop the services never makes
\* execute() return False.
C33_CleanupNeverFails ==
    outcome.kind = "cleaned" =>
        /\ outcome.raised \in {"none", "KeyboardInterrupt"}
        /\ outcome.undo \in ActionOutcomes("Stop services", FALSE)
        /\ \A k \in 1..Len(outcome.trace) :
              outcome.trace[k].op = "remove_volume" => call.remove_volumes
        /\ NotInterrupted =>
              /\ [k \in 1..Len(outcome.trace) |-> outcome.trace[k].op] =
                     <<"stop_services", "remove_container">> \o
                     (IF call.remove_volumes THEN <<"remove_volume">> ELSE <<>>)
              /\ outcome.raised = "none"
              /\ outcome.ret = "True"

\* stop_services failed, the container was removed all the same, and
\* execute() returned True.
C33_Witness ==
    /\ outcome.kind = "cleaned"
    /\ outcome.trace[1] = Ev("stop_services", "", "DockerError")
    /\ Len(outcome.trace) >= 2
    /\ outcome.trace[2] = Ev("remove_container", "", "ok")
    /\ outcome.ret = "True"

\* ------------------------------------ claims on SpecWF, run_deploy

\* The user declined to overwrite the existing .env file.
Declined == \E k \in 1..Len(ops) : ops[k] = Ev("input", "", "n")

\* C34: when a .env file exists and the user declines to overwrite it,
\* run_deploy neither rewrites it nor registers 'Remove .env file', and no
\* later failure and rollback of the invocation deletes it.
C34_KeptEnvFileSurvives ==
    (cmd = "deploy" /\ Declined) =>
        /\ env_exists
        /\ \A k \in 1..Len(ops) :
              /\ ops[k].op # "generate_env_file"
              /\ ops[k].arg # "Remove .env file"
        /\ \A i \in 1..Len(rollback.actions) :
              rollback.actions[i].name # "Remove .env file"

\* The user kept the file, a later step failed and the rollback stopped
\* the services.
C34_Witness ==
    /\ cmd = "deploy" /\ Declined /\ Ended
    /\ \E k \in 1..Len(ops) : ops[k] = Ev("undo", "Stop services", "ok")
    /\ env_exists

\* ------------------------------------------------ claims on SpecWait

WaitReturned == cmd = "wait_for_healthy" /\ pc = "done" /\ result \in {"True", "False"}

\* the last observation is one that lets wait_for_healthy answer True
LastIsGood ==
    /\ outcome.polls > 0
    /\ outcome.last.status = "running"
    /\ \/ outcome.last.health = "healthy"
       \/ /\ outcome.last.health = "None"
          /\ outcome.polls - 1 > NoHealthCheckRetries

\* the last observation is an unhealthy, exited or dead container
LastIsBad ==
    /\ outcome.polls > 0
    /\ \/ outcome.last.status = "running" /\ outcome.last.health = "unhealthy"
       \/ outcome.last.status \in {"exited", "dead"}

\* C35: wait_for_healthy returns True exactly when its last observation
\* found the container running and healthy, or running without health
\* check after more than 3 earlier polls; every other return is False.
C35_TrueOnlyWhenHealthy ==
    WaitReturned => (result = "True" <=> LastIsGood)

\* wait_for_healthy has returned True for a container without health
\* check, on its fifth poll.
C35_Witness ==
    /\ WaitReturned /\ result = "True"
    /\ outcome.last.health = "None"
    /\ outcome.polls = NoHealthCheckRetries + 2

\* C36: the first poll that observes an unhealthy, exited or dead
\* container ends wait_for_healthy with False; no poll follows it.
C36_FailFast ==
    /\ []((cmd = "wait_for_healthy" /\ LastIsBad) =>
             (pc = "done" /\ result = "False"))
    /\ [][(cmd = "wait_for_healthy" /\ LastIsBad) => UNCHANGED outcome]_vars

\* wait_for_healthy has returned False on an unhealthy container at a
\* second poll, with time left for another poll before the timeout.
C36_Witness ==
    /\ WaitReturned /\ result = "False"
    /\ outcome.last = [status |-> "running", health |-> "unhealthy"]
    /\ outcome.polls = 2
    /\ outcome.elapsed + call.interval < call.timeout

\* C37: wait_for_healthy terminates: it polls at most about
\* timeout/interval times (a poll starts only while fewer than timeout
\* seconds have passed, and every undecided poll takes at least the
\* interval), and when the time is up without a decisive observation it
\* returns False.
C37_Terminates ==
    /\ [](cmd = "wait_for_healthy" =>
            /\ outcome.polls * call.interval < call.timeout + call.interval
            /\ (WaitReturned /\ ~LastIsGood /\ ~LastIsBad) =>
                   (result = "False" /\ outcome.elapsed >= call.timeout))
    /\ <>(cmd = "wait_for_healthy" => pc = "done")

\* wait_for_healthy has returned False because the time was up, after
\* several polls that saw a container still starting.
C37_Witness ==
    /\ WaitReturned /\ result = "False"
    /\ outcome.polls >= 3
    /\ outcome.last = [status |-> "running", health |-> "starting"]
    /\ outcome.elapsed >= call.timeout

\* ---------------------------------------------- claims on SpecStatus

\* the container run_status was asked about, as docker knows it
Asked == call.docker.containers[call.container_name]

\* C38: run_status returns True if and only if the container exists, is
\* running and its health is "healthy" or absent; a stopped or missing
\* container and any other health value give False.
C38_HealthyIff ==
    (call.fn = "run_status" /\ outcome.kind = "returned") =>
        (outcome.value <=>
            /\ call.docker.up
            /\ Asked # Absent
            /\ Asked.status = "running"
            /\ Asked.health \in {"healthy", "<no value>"})

====
